---- MODULE Spec2Model ----
(***************************************************************************)
(* Offer assessment engine of the salary negotiator: the market data      *)
(* resolver (services/market_data.py), the UMK minimum-wage compliance    *)
(* check (services/umk_data.py) and the verdict / negotiation calculator  *)
(* (services/salary_analyzer.py).                                         *)
(*                                                                         *)
(* Encoding conventions                                                    *)
(*   Python None is the empty tuple <<>>, a present number v is <<v>>.     *)
(*   A Python dict is a TLA+ record; a dict without a key is a record     *)
(*   without that field, so a KeyError is a test on DOMAIN.               *)
(*   Floats are kept as exact rationals: multipliers in hundredths,       *)
(*   percentiles in twentieths, negotiation targets in two-hundredths.    *)
(*   A raised exception is the record [exc |-> <name>].                   *)
(***************************************************************************)
EXTENDS Integers, Sequences, FiniteSets, TLC

VARIABLES
  store,    \* rows of salary_data
  now,      \* the clock, in days
  pc,       \* per analyze_offer call: idle, step1, step2, step3, analyze, done
  offer,    \* per call: the offer being analyzed
  queries,  \* per call: the salary_data queries issued so far
  market,   \* per call: what get_market_data returned
  result,   \* per call: what analyze_offer returned or raised
  fn,       \* function-level runs: the function applied
  arg,      \* function-level runs: its inputs
  ret,      \* function-level runs: its result
  umk_table,  \* rows of the umk_data table
  admin,      \* per admin request: what it is doing and what it has read
  assessed    \* the latest compliance assessment made while the table changes

vars == <<store, now, pc, offer, queries, market, result, fn, arg, ret,
          umk_table, admin, assessed>>

pipeVars == <<store, now, pc, offer, queries, market, result>>

fnVars == <<fn, arg, ret>>

umkVars == <<umk_table, admin, assessed>>

---------------------------------------------------------------------------
(* Python values *)

None == <<>>

Some(v) == <<v>>

Val(x) == x[1]

\* Python truthiness of an optional number: None and 0 are falsy
Truthy(x) == x # <<>> /\ x[1] # 0

\* dict.get(key, default) on a record
Get(d, key, default) == IF key \in DOMAIN d THEN d[key] ELSE default

Max(a, b) == IF a >= b THEN a ELSE b

Min(a, b) == IF a <= b THEN a ELSE b

Abs(a) == IF a < 0 THEN -a ELSE a

IsExc(x) == DOMAIN x = {"exc"}

---------------------------------------------------------------------------
(* Python str operations *)

\* sub in s
Contains(sub, s) ==
  \/ Len(sub) = 0
  \/ \E i \in 1..(Len(s) - Len(sub) + 1) : SubSeq(s, i, i + Len(sub) - 1) = sub

LowerChar(c) ==
  CASE c = "A" -> "a" [] c = "B" -> "b" [] c = "C" -> "c" [] c = "D" -> "d"
    [] c = "E" -> "e" [] c = "F" -> "f" [] c = "G" -> "g" [] c = "H" -> "h"
    [] c = "I" -> "i" [] c = "J" -> "j" [] c = "K" -> "k" [] c = "L" -> "l"
    [] c = "M" -> "m" [] c = "N" -> "n" [] c = "O" -> "o" [] c = "P" -> "p"
    [] c = "Q" -> "q" [] c = "R" -> "r" [] c = "S" -> "s" [] c = "T" -> "t"
    [] c = "U" -> "u" [] c = "V" -> "v" [] c = "W" -> "w" [] c = "X" -> "x"
    [] c = "Y" -> "y" [] c = "Z" -> "z" [] OTHER -> c

RECURSIVE Lower(_)
Lower(s) ==
  IF Len(s) = 0 THEN s
  ELSE LowerChar(SubSeq(s, 1, 1)) \o Lower(SubSeq(s, 2, Len(s)))

RECURSIVE LStrip(_)
LStrip(s) ==
  IF Len(s) > 0 /\ SubSeq(s, 1, 1) = " " THEN LStrip(SubSeq(s, 2, Len(s))) ELSE s

RECURSIVE RStrip(_)
RStrip(s) ==
  IF Len(s) > 0 /\ SubSeq(s, Len(s), Len(s)) = " "
  THEN RStrip(SubSeq(s, 1, Len(s) - 1)) ELSE s

Strip(s) == RStrip(LStrip(s))

\* s.replace(old, new), old non-empty: leftmost non-overlapping occurrences
RECURSIVE Replace(_, _, _)
Replace(s, old, new) ==
  IF Len(s) < Len(old) THEN s
  ELSE IF SubSeq(s, 1, Len(old)) = old
       THEN new \o Replace(SubSeq(s, Len(old) + 1, Len(s)), old, new)
       ELSE SubSeq(s, 1, 1) \o Replace(SubSeq(s, 2, Len(s)), old, new)

\* any(term in s for term in terms)
AnyIn(terms, s) == \E k \in 1..Len(terms) : Contains(terms[k], s)

\* index of the first element of a sequence satisfying a test, 0 if none
FirstIdx(n, Test(_)) ==
  IF \E k \in 1..n : Test(k)
  THEN CHOOSE k \in 1..n : Test(k) /\ \A j \in 1..(k - 1) : ~Test(j)
  ELSE 0

---------------------------------------------------------------------------
(* Rounding.  round(x, 1) of x = num/den * 100 in tenths of a percent:     *)
(* the quotient 1000*num/den rounded to the nearest integer, ties to even, *)
(* by long division so that no intermediate exceeds the integer range.     *)

RoundTenthsPos(num, den) ==
  LET q0 == num \div den
      r0 == num % den
      d1 == (r0 * 10) \div den
      r1 == (r0 * 10) % den
      d2 == (r1 * 10) \div den
      r2 == (r1 * 10) % den
      d3 == (r2 * 10) \div den
      r3 == (r2 * 10) % den
      t  == q0 * 1000 + d1 * 100 + d2 * 10 + d3
  IN  IF 2 * r3 > den THEN t + 1
      ELSE IF 2 * r3 < den THEN t
      ELSE IF t % 2 = 0 THEN t ELSE t + 1

RECURSIVE GCD(_, _)
GCD(a, b) == IF b = 0 THEN a ELSE GCD(b, a % b)

\* a variant that cuts the percentage off at the first decimal
TruncTenths(num, den) ==
  IF num >= 0 THEN ((num \div den) * 1000) + (((num % den) \div 1000) * 1000) \div (den \div 1000)
  ELSE -(((-num) \div den) * 1000 + ((((-num) % den) \div 1000) * 1000) \div (den \div 1000))

\* tenths of a percent of num/den, den > 0: the fraction is reduced first,
\* and the sign is handled symmetrically (ties to even are symmetric)
RoundTenths(num, den) ==
  LET g == GCD(Abs(num), den)
  IN  IF num >= 0 THEN RoundTenthsPos(num \div g, den \div g)
      ELSE -RoundTenthsPos((-num) \div g, den \div g)

---------------------------------------------------------------------------
(* services/umk_data.py *)

UMK_DATA_2024 ==
  <<
    [key |-> "jakarta", kabupaten_kota |-> "Jakarta", provinsi |-> "DKI Jakarta", umk |-> 5067823, region |-> "jabodetabek"],
    [key |-> "jakarta pusat", kabupaten_kota |-> "Jakarta Pusat", provinsi |-> "DKI Jakarta", umk |-> 5067823, region |-> "jabodetabek"],
    [key |-> "jakarta utara", kabupaten_kota |-> "Jakarta Utara", provinsi |-> "DKI Jakarta", umk |-> 5067823, region |-> "jabodetabek"],
    [key |-> "jakarta barat", kabupaten_kota |-> "Jakarta Barat", provinsi |-> "DKI Jakarta", umk |-> 5067823, region |-> "jabodetabek"],
    [key |-> "jakarta selatan", kabupaten_kota |-> "Jakarta Selatan", provinsi |-> "DKI Jakarta", umk |-> 5067823, region |-> "jabodetabek"],
    [key |-> "jakarta timur", kabupaten_kota |-> "Jakarta Timur", provinsi |-> "DKI Jakarta", umk |-> 5067823, region |-> "jabodetabek"],
    [key |-> "bogor", kabupaten_kota |-> "Kota Bogor", provinsi |-> "Jawa Barat", umk |-> 4459693, region |-> "jabodetabek"],
    [key |-> "depok", kabupaten_kota |-> "Kota Depok", provinsi |-> "Jawa Barat", umk |-> 4415979, region |-> "jabodetabek"],
    [key |-> "tangerang", kabupaten_kota |-> "Kota Tangerang", provinsi |-> "Banten", umk |-> 4350672, region |-> "jabodetabek"],
    [key |-> "tangerang selatan", kabupaten_kota |-> "Kota Tangerang Selatan", provinsi |-> "Banten", umk |-> 4350672, region |-> "jabodetabek"],
    [key |-> "bekasi", kabupaten_kota |-> "Kota Bekasi", provinsi |-> "Jawa Barat", umk |-> 4781208, region |-> "jabodetabek"],
    [key |-> "bandung", kabupaten_kota |-> "Kota Bandung", provinsi |-> "Jawa Barat", umk |-> 3742275, region |-> "jawa_barat"],
    [key |-> "cimahi", kabupaten_kota |-> "Kota Cimahi", provinsi |-> "Jawa Barat", umk |-> 3742275, region |-> "jawa_barat"],
    [key |-> "sukabumi", kabupaten_kota |-> "Kota Sukabumi", provinsi |-> "Jawa Barat", umk |-> 2679393, region |-> "jawa_barat"],
    [key |-> "cirebon", kabupaten_kota |-> "Kota Cirebon", provinsi |-> "Jawa Barat", umk |-> 2197442, region |-> "jawa_barat"],
    [key |-> "semarang", kabupaten_kota |-> "Kota Semarang", provinsi |-> "Jawa Tengah", umk |-> 2954326, region |-> "jawa_tengah"],
    [key |-> "surakarta", kabupaten_kota |-> "Kota Surakarta", provinsi |-> "Jawa Tengah", umk |-> 2104701, region |-> "jawa_tengah"],
    [key |-> "solo", kabupaten_kota |-> "Kota Surakarta", provinsi |-> "Jawa Tengah", umk |-> 2104701, region |-> "jawa_tengah"],
    [key |-> "yogyakarta", kabupaten_kota |-> "Yogyakarta", provinsi |-> "DI Yogyakarta", umk |-> 2165830, region |-> "yogyakarta"],
    [key |-> "surabaya", kabupaten_kota |-> "Kota Surabaya", provinsi |-> "Jawa Timur", umk |-> 2430438, region |-> "jawa_timur"],
    [key |-> "malang", kabupaten_kota |-> "Kota Malang", provinsi |-> "Jawa Timur", umk |-> 2087093, region |-> "jawa_timur"],
    [key |-> "kediri", kabupaten_kota |-> "Kota Kediri", provinsi |-> "Jawa Timur", umk |-> 1997077, region |-> "jawa_timur"],
    [key |-> "blitar", kabupaten_kota |-> "Kota Blitar", provinsi |-> "Jawa Timur", umk |-> 2143536, region |-> "jawa_timur"],
    [key |-> "denpasar", kabupaten_kota |-> "Kota Denpasar", provinsi |-> "Bali", umk |-> 2636407, region |-> "bali"],
    [key |-> "badung", kabupaten_kota |-> "Kabupaten Badung", provinsi |-> "Bali", umk |-> 2636407, region |-> "bali"],
    [key |-> "medan", kabupaten_kota |-> "Kota Medan", provinsi |-> "Sumatera Utara", umk |-> 3019784, region |-> "sumatera"],
    [key |-> "palembang", kabupaten_kota |-> "Kota Palembang", provinsi |-> "Sumatera Selatan", umk |-> 3284052, region |-> "sumatera"],
    [key |-> "padang", kabupaten_kota |-> "Kota Padang", provinsi |-> "Sumatera Barat", umk |-> 2600628, region |-> "sumatera"],
    [key |-> "pekanbaru", kabupaten_kota |-> "Kota Pekanbaru", provinsi |-> "Riau", umk |-> 3194262, region |-> "sumatera"],
    [key |-> "banjarmasin", kabupaten_kota |-> "Kota Banjarmasin", provinsi |-> "Kalimantan Selatan", umk |-> 3034324, region |-> "kalimantan"],
    [key |-> "samarinda", kabupaten_kota |-> "Kota Samarinda", provinsi |-> "Kalimantan Timur", umk |-> 3094230, region |-> "kalimantan"],
    [key |-> "balikpapan", kabupaten_kota |-> "Kota Balikpapan", provinsi |-> "Kalimantan Timur", umk |-> 3294214, region |-> "kalimantan"],
    [key |-> "pontianak", kabupaten_kota |-> "Kota Pontianak", provinsi |-> "Kalimantan Barat", umk |-> 2836287, region |-> "kalimantan"],
    [key |-> "makassar", kabupaten_kota |-> "Kota Makassar", provinsi |-> "Sulawesi Selatan", umk |-> 3372930, region |-> "sulawesi"],
    [key |-> "manado", kabupaten_kota |-> "Kota Manado", provinsi |-> "Sulawesi Utara", umk |-> 3503965, region |-> "sulawesi"],
    [key |-> "jayapura", kabupaten_kota |-> "Kota Jayapura", provinsi |-> "Papua", umk |-> 3611729, region |-> "papua"]
  >>

UpperChar(c) ==
  CASE c = "a" -> "A" [] c = "b" -> "B" [] c = "c" -> "C" [] c = "d" -> "D"
    [] c = "e" -> "E" [] c = "f" -> "F" [] c = "g" -> "G" [] c = "h" -> "H"
    [] c = "i" -> "I" [] c = "j" -> "J" [] c = "k" -> "K" [] c = "l" -> "L"
    [] c = "m" -> "M" [] c = "n" -> "N" [] c = "o" -> "O" [] c = "p" -> "P"
    [] c = "q" -> "Q" [] c = "r" -> "R" [] c = "s" -> "S" [] c = "t" -> "T"
    [] c = "u" -> "U" [] c = "v" -> "V" [] c = "w" -> "W" [] c = "x" -> "X"
    [] c = "y" -> "Y" [] c = "z" -> "Z" [] OTHER -> c

\* str.title() of a lowercase text of space-separated words
RECURSIVE TitleFrom(_, _)
TitleFrom(s, startOfWord) ==
  IF Len(s) = 0 THEN s
  ELSE LET c == SubSeq(s, 1, 1)
       IN  (IF startOfWord THEN UpperChar(c) ELSE c)
             \o TitleFrom(SubSeq(s, 2, Len(s)), c = " ")

Title(s) == TitleFrom(s, TRUE)

province_umk ==
  << [province |-> "bali", umk |-> 2636407],
     [province |-> "dki jakarta", umk |-> 5067823],
     [province |-> "di yogyakarta", umk |-> 2165830],
     [province |-> "yogyakarta", umk |-> 2165830],
     [province |-> "jawa barat", umk |-> 1842589],
     [province |-> "jawa tengah", umk |-> 1963008],
     [province |-> "jawa timur", umk |-> 2087170] >>

UmkRecord(e) ==
  [kabupaten_kota |-> e.kabupaten_kota, provinsi |-> e.provinsi,
   umk |-> e.umk, region |-> e.region]

\* a variant that tries the partial matches before the exact key
get_umk_for_location_partial_first(location) ==
  IF Len(location) = 0 THEN None
  ELSE
    LET location_lower == Strip(Lower(location))
        location_clean ==
          Replace(
            Replace(
              Replace(Replace(location_lower, "kota ", ""), "kabupaten ", ""),
              " daerah istimewa yogyakarta", "yogyakarta"),
            "dki ", "")
        Partial(k) == \/ Contains(UMK_DATA_2024[k].key, location_clean)
                      \/ Contains(location_clean, UMK_DATA_2024[k].key)
        Prov(k) == Contains(province_umk[k].province, location_lower)
        m == FirstIdx(Len(UMK_DATA_2024), Partial)
        v == FirstIdx(Len(province_umk), Prov)
    IN  IF m # 0 THEN Some(UmkRecord(UMK_DATA_2024[m]))
        ELSE IF v # 0
             THEN Some([kabupaten_kota |-> "Provinsi " \o Title(province_umk[v].province),
                        provinsi |-> Title(province_umk[v].province),
                        umk |-> province_umk[v].umk,
                        region |-> "province"])
        ELSE None

\* get_umk_for_location: None, or Some(record)
get_umk_for_location(location) ==
  IF Len(location) = 0 THEN None
  ELSE
    LET location_lower == Strip(Lower(location))
        location_clean ==
          Replace(
            Replace(
              Replace(Replace(location_lower, "kota ", ""), "kabupaten ", ""),
              " daerah istimewa yogyakarta", "yogyakarta"),
            "dki ", "")
        n == Len(UMK_DATA_2024)
        Direct(k) == UMK_DATA_2024[k].key = location_clean
        Partial(k) == \/ Contains(UMK_DATA_2024[k].key, location_clean)
                      \/ Contains(location_clean, UMK_DATA_2024[k].key)
        Prov(k) == Contains(province_umk[k].province, location_lower)
        d == FirstIdx(n, Direct)
        m == FirstIdx(n, Partial)
        v == FirstIdx(Len(province_umk), Prov)
    IN  IF d # 0 THEN Some(UmkRecord(UMK_DATA_2024[d]))
        ELSE IF m # 0 THEN Some(UmkRecord(UMK_DATA_2024[m]))
        ELSE IF v # 0
             THEN Some([kabupaten_kota |-> "Provinsi " \o Title(province_umk[v].province),
                        provinsi |-> Title(province_umk[v].province),
                        umk |-> province_umk[v].umk,
                        region |-> "province"])
        ELSE None

\* a variant that reports a location without UMK data as being below the minimum
UmkUnavailableBelow ==
  [complies |-> FALSE,
   percentage_above_umk |-> None,
   umk_amount |-> None,
   difference |-> None,
   message |-> "UMK data not available for this location"]

\* the result of calculate_umk_compliance without UMK data (lines 300-307)
UmkUnavailable ==
  [complies |-> TRUE,
   percentage_above_umk |-> None,
   umk_amount |-> None,
   difference |-> None,
   message |-> "UMK data not available for this location"]

\* a variant with the "none" level starting at 20 percent
UmkRiskBandsAt20(annual_salary, annual_umk, below20, below50) ==
  IF annual_salary < annual_umk
    THEN [message |-> "WARNING: Offer is below UMK!", risk_level |-> "high"]
  ELSE IF below20
    THEN [message |-> "Meets UMK requirement", risk_level |-> "low"]
  ELSE [message |-> "Significantly above UMK requirement", risk_level |-> "none"]

\* message and risk level (lines 334-345); below20 and below50 are the tests
\* percentage_above < 20 and percentage_above < 50 on the unrounded percentage
UmkRiskBands(annual_salary, annual_umk, below20, below50) ==
  IF annual_salary < annual_umk
    THEN [message |-> "WARNING: Offer is below UMK!", risk_level |-> "high"]
  ELSE IF below20
    THEN [message |-> "Meets UMK requirement", risk_level |-> "low"]
  ELSE IF below50
    THEN [message |-> "Above UMK requirement", risk_level |-> "low"]
  ELSE [message |-> "Significantly above UMK requirement", risk_level |-> "none"]

\* calculate_umk_compliance; umk_data is None or Some(record with field umk).
\* percentage_above_umk is in tenths of a percent (round(x, 1) * 10).
\* The tests on the unrounded percentage_above are cross-multiplied:
\*   difference / annual_umk * 100 < 20  <=>  5 * difference < annual_umk
\*   difference / annual_umk * 100 < 50  <=>  2 * difference < annual_umk
calculate_umk_compliance(base_salary, umk_data) ==
  IF umk_data = None THEN UmkUnavailable
  ELSE
    LET umk_amount == Val(umk_data).umk
        annual_salary == base_salary * 12
        annual_umk == umk_amount * 12
        difference == annual_salary - annual_umk
        pct == IF annual_umk > 0 THEN RoundTenths(difference, annual_umk) ELSE 0
        below20 == IF annual_umk > 0 THEN 5 * difference < annual_umk ELSE TRUE
        below50 == IF annual_umk > 0 THEN 2 * difference < annual_umk ELSE TRUE
        status == [complies |-> annual_salary >= annual_umk,
                   percentage_above_umk |-> Some(pct),
                   umk_amount |-> Some(umk_amount),
                   annual_umk |-> annual_umk,
                   difference |-> Some(difference),
                   monthly_salary |-> base_salary,
                   annual_salary |-> annual_salary]
        bands == UmkRiskBands(annual_salary, annual_umk, below20, below50)
    IN  [k \in DOMAIN status \cup DOMAIN bands |->
           IF k \in DOMAIN bands THEN bands[k] ELSE status[k]]

---------------------------------------------------------------------------
(* services/market_data.py: classifiers *)

_normalize_job_title(title) ==
  IF Len(title) = 0 THEN "unknown"
  ELSE
    LET title_lower == Lower(title)
        Has(term) == Contains(term, title_lower)
        RECURSIVE Collapse(_)
        Collapse(x) == IF Contains("__", x) THEN Collapse(Replace(x, "__", "_")) ELSE x
        normalized ==
          Collapse(Replace(Replace(Replace(title_lower, " ", "_"), "-", "_"), "/", "_"))
    IN  IF AnyIn(<<"software engineer", "swe", "software developer", "developer">>, title_lower)
        THEN IF AnyIn(<<"senior", "sr", "lead">>, title_lower) THEN "senior_software_engineer"
             ELSE IF Has("staff") THEN "staff_software_engineer"
             ELSE IF Has("principal") THEN "principal_software_engineer"
             ELSE IF AnyIn(<<"junior", "jr", "associate">>, title_lower)
                  THEN "junior_software_engineer"
             ELSE "software_engineer"
        ELSE IF AnyIn(<<"product manager", "pm">>, title_lower)
        THEN IF Has("senior") \/ Has("sr") THEN "senior_product_manager"
             ELSE IF AnyIn(<<"principal", "lead">>, title_lower) THEN "principal_product_manager"
             ELSE "product_manager"
        ELSE IF AnyIn(<<"data scientist", "data science">>, title_lower)
        THEN IF Has("senior") \/ Has("sr") THEN "senior_data_scientist"
             ELSE "data_scientist"
        ELSE IF AnyIn(<<"devops", "dev ops", "platform engineer">>, title_lower)
        THEN "devops_engineer"
        ELSE IF AnyIn(<<"ux designer", "ui designer", "product designer">>, title_lower)
        THEN "ux_designer"
        ELSE SubSeq(normalized, 1, Min(50, Len(normalized)))

tier1_cities ==
  << "san francisco", "sf", "bay area", "silicon valley", "palo alto", "new york", "nyc", "manhattan", "brooklyn", "seattle", "los angeles", "la", "santa monica", "boston", "washington dc", "dc", "san diego" >>

tier2_cities ==
  << "austin", "denver", "portland", "chicago", "miami", "philadelphia", "atlanta", "dallas", "houston", "minneapolis", "phoenix", "salt lake city", "raleigh" >>

\* city -> multiplier in hundredths, in dict order
col_multipliers ==
  << [city |-> "san francisco", multiplier |-> 152],
     [city |-> "sf", multiplier |-> 152],
     [city |-> "bay area", multiplier |-> 152],
     [city |-> "silicon valley", multiplier |-> 152],
     [city |-> "new york", multiplier |-> 148],
     [city |-> "nyc", multiplier |-> 148],
     [city |-> "manhattan", multiplier |-> 155],
     [city |-> "seattle", multiplier |-> 135],
     [city |-> "los angeles", multiplier |-> 142],
     [city |-> "la", multiplier |-> 142],
     [city |-> "boston", multiplier |-> 138],
     [city |-> "washington dc", multiplier |-> 135],
     [city |-> "dc", multiplier |-> 135],
     [city |-> "san diego", multiplier |-> 132],
     [city |-> "austin", multiplier |-> 118],
     [city |-> "denver", multiplier |-> 115],
     [city |-> "portland", multiplier |-> 112],
     [city |-> "chicago", multiplier |-> 108],
     [city |-> "miami", multiplier |-> 110],
     [city |-> "philadelphia", multiplier |-> 105],
     [city |-> "atlanta", multiplier |-> 103],
     [city |-> "dallas", multiplier |-> 104],
     [city |-> "houston", multiplier |-> 102],
     [city |-> "remote", multiplier |-> 100],
     [city |-> "work from home", multiplier |-> 100],
     [city |-> "wfh", multiplier |-> 100] >>

\* technology -> premium in hundredths, in dict order
premium_tech ==
  << [name |-> "rust", premium |-> 120],
     [name |-> "golang", premium |-> 115],
     [name |-> "go", premium |-> 115],
     [name |-> "kubernetes", premium |-> 118],
     [name |-> "k8s", premium |-> 118],
     [name |-> "docker", premium |-> 108],
     [name |-> "ai", premium |-> 125],
     [name |-> "ml", premium |-> 125],
     [name |-> "machine learning", premium |-> 125],
     [name |-> "deep learning", premium |-> 128],
     [name |-> "tensorflow", premium |-> 122],
     [name |-> "pytorch", premium |-> 122],
     [name |-> "aws", premium |-> 112],
     [name |-> "azure", premium |-> 110],
     [name |-> "gcp", premium |-> 115],
     [name |-> "terraform", premium |-> 115],
     [name |-> "ansible", premium |-> 110],
     [name |-> "react", premium |-> 108],
     [name |-> "vue", premium |-> 106],
     [name |-> "angular", premium |-> 105],
     [name |-> "nodejs", premium |-> 110],
     [name |-> "typescript", premium |-> 112],
     [name |-> "spark", premium |-> 118],
     [name |-> "hadoop", premium |-> 115],
     [name |-> "snowflake", premium |-> 120],
     [name |-> "tableau", premium |-> 110],
     [name |-> "looker", premium |-> 108],
     [name |-> "cryptography", premium |-> 115],
     [name |-> "security", premium |-> 112],
     [name |-> "blockchain", premium |-> 120],
     [name |-> "ethereum", premium |-> 118],
     [name |-> "solidity", premium |-> 122],
     [name |-> "react native", premium |-> 112],
     [name |-> "flutter", premium |-> 115],
     [name |-> "swift", premium |-> 110] >>

_get_location_tier(location) ==
  IF Len(location) = 0 THEN "tier3"
  ELSE
    LET location_lower == Lower(location)
    IN  IF AnyIn(<<"remote", "work from home", "wfh">>, location_lower) THEN "remote"
        ELSE IF AnyIn(tier1_cities, location_lower) THEN "tier1"
        ELSE IF AnyIn(tier2_cities, location_lower) THEN "tier2"
        ELSE "tier3"

\* default multiplier of a tier, in hundredths
tier_multipliers(tier) ==
  CASE tier = "tier1" -> 140
    [] tier = "tier2" -> 110
    [] tier = "tier3" -> 100
    [] tier = "remote" -> 100
    [] OTHER -> 100

\* in hundredths
_get_col_multiplier(location) ==
  LET location_lower == IF Len(location) = 0 THEN "" ELSE Lower(location)
      Hit(k) == Contains(col_multipliers[k].city, location_lower)
      h == FirstIdx(Len(col_multipliers), Hit)
  IN  IF h # 0 THEN col_multipliers[h].multiplier
      ELSE tier_multipliers(_get_location_tier(location))

\* premiums collected for one technology: at most one, in hundredths
TechPremiums(tech) ==
  LET n == Len(premium_tech)
      Exact(k) == premium_tech[k].name = tech
      Part(k) == \/ Contains(premium_tech[k].name, tech)
                 \/ Contains(tech, premium_tech[k].name)
      e == FirstIdx(n, Exact)
      q == FirstIdx(n, Part)
  IN  IF e # 0 THEN {premium_tech[e].premium}
      ELSE IF q # 0 THEN {premium_tech[q].premium}
      ELSE {}

\* a variant that stacks the premiums of the tags before the cap
RECURSIVE StackedExcess(_)
StackedExcess(tech_stack) ==
  IF Len(tech_stack) = 0 THEN 0
  ELSE LET found == TechPremiums(Lower(Head(tech_stack)))
       IN  (IF found = {} THEN 0 ELSE (CHOOSE x \in found : TRUE) - 100)
             + StackedExcess(Tail(tech_stack))

_calculate_tech_stack_premium_stacked(tech_stack) ==
  Min(100 + StackedExcess(tech_stack), 135)

\* in hundredths
_calculate_tech_stack_premium(tech_stack) ==
  IF Len(tech_stack) = 0 THEN 100
  ELSE
    LET premiums == UNION {TechPremiums(Lower(tech_stack[k])) : k \in 1..Len(tech_stack)}
    IN  IF premiums = {} THEN 100
        ELSE LET max_premium == CHOOSE x \in premiums : \A y \in premiums : y <= x
             IN  Min(max_premium, 135)

_calculate_confidence(sample_size) ==
  IF sample_size >= 100 THEN "high"
  ELSE IF sample_size >= 30 THEN "medium"
  ELSE IF sample_size >= 10 THEN "low"
  ELSE "very_low"

\* a variant with the quartile and the median exchanged
_get_default_market_data_unordered ==
  [p10 |-> Some(60000), p25 |-> Some(95000), p50 |-> Some(75000),
   p75 |-> Some(120000), p90 |-> Some(150000), sample_size |-> 0,
   avg_base |-> Some(95000), avg_bonus |-> Some(10000), avg_equity |-> Some(5000),
   confidence |-> "very_low", data_freshness |-> "estimated"]

_get_default_market_data ==
  [p10 |-> Some(60000), p25 |-> Some(75000), p50 |-> Some(95000),
   p75 |-> Some(120000), p90 |-> Some(150000), sample_size |-> 0,
   avg_base |-> Some(95000), avg_bonus |-> Some(10000), avg_equity |-> Some(5000),
   confidence |-> "very_low", data_freshness |-> "estimated"]

---------------------------------------------------------------------------
(* services/market_data.py: the salary_data queries.  A sample is a row of  *)
(* salary_data (database.py); dates are day numbers.                        *)

Sample(title, tier, yrs, base, bonus, equity, verified, day) ==
  [normalized_title |-> title, location_tier |-> tier, years_experience |-> yrs,
   base_salary |-> base, bonus |-> bonus, equity_value |-> equity,
   total_comp |-> base + bonus + equity, is_verified |-> verified,
   submitted_date |-> day]

RECURSIVE SumOf(_, _)
SumOf(rows, field) ==
  IF Len(rows) = 0 THEN 0 ELSE Head(rows)[field] + SumOf(Tail(rows), field)

\* k-th smallest total_comp of the rows, 1 <= k <= Len(rows)
KthTotal(rows, k) ==
  LET idx == 1..Len(rows)
  IN  CHOOSE v \in {rows[j].total_comp : j \in idx} :
        /\ Cardinality({j \in idx : rows[j].total_comp < v}) < k
        /\ Cardinality({j \in idx : rows[j].total_comp <= v}) >= k

\* percentile_cont(f) WITHIN GROUP (ORDER BY total_comp), f = f20/20, as a number
\* of twentieths: linear interpolation between the rows around 1 + f * (n - 1)
percentile_cont(rows, f20) ==
  IF Len(rows) = 0 THEN None
  ELSE LET pos20 == f20 * (Len(rows) - 1)
           lo == pos20 \div 20
           fr == pos20 % 20
           a == KthTotal(rows, lo + 1)
       IN  IF fr = 0 THEN Some(20 * a)
           ELSE Some(20 * a + fr * (KthTotal(rows, lo + 2) - a))

\* AVG(column): NULL over no rows
Avg(rows, field) ==
  IF Len(rows) = 0 THEN None ELSE Some(SumOf(rows, field) \div Len(rows))

\* the aggregate row of the two fallback queries: no p10 column is selected
FallbackColumns(rows) ==
  [p25 |-> percentile_cont(rows, 5), p50 |-> percentile_cont(rows, 10),
   p75 |-> percentile_cont(rows, 15), p90 |-> percentile_cont(rows, 18),
   sample_size |-> Len(rows),
   avg_base |-> Avg(rows, "base_salary"), avg_bonus |-> Avg(rows, "bonus"),
   avg_equity |-> Avg(rows, "equity_value")]

\* a variant of the specific query without the is_verified filter
Step1QueryUnverified(st, normalized_title, location_tier, years_experience, today) ==
  LET Match(r) == /\ r.normalized_title = normalized_title
                  /\ r.years_experience >= years_experience - 2
                  /\ r.years_experience <= years_experience + 2
                  /\ r.location_tier = location_tier
                  /\ r.submitted_date > today - 540
      rows == SelectSeq(st, Match)
      rest == FallbackColumns(rows)
  IN  [k \in DOMAIN rest \cup {"p10"} |->
         IF k = "p10" THEN percentile_cont(rows, 2) ELSE rest[k]]

\* the query of get_market_data: title, experience window, tier, 540 days, verified
Step1Query(st, normalized_title, location_tier, years_experience, today) ==
  LET Match(r) == /\ r.normalized_title = normalized_title
                  /\ r.years_experience >= years_experience - 2
                  /\ r.years_experience <= years_experience + 2
                  /\ r.location_tier = location_tier
                  /\ r.submitted_date > today - 540
                  /\ r.is_verified
      rows == SelectSeq(st, Match)
      rest == FallbackColumns(rows)
  IN  [k \in DOMAIN rest \cup {"p10"} |->
         IF k = "p10" THEN percentile_cont(rows, 2) ELSE rest[k]]

\* first query of _fallback_query: title, verified, 730 days
Step2Query(st, normalized_title, today) ==
  LET Match(r) == /\ r.normalized_title = normalized_title
                  /\ r.is_verified
                  /\ r.submitted_date > today - 730
  IN  FallbackColumns(SelectSeq(st, Match))

\* broader query of _fallback_query: verified, 730 days before the day the
\* first fallback query was prepared
Step3Query(st, today) ==
  LET Match(r) == r.is_verified /\ r.submitted_date > today - 730
  IN  FallbackColumns(SelectSeq(st, Match))

\* a variant threshold of three samples
InsufficientBelow3(result_dict) == result_dict.sample_size < 3

\* get_market_data line 73: the specific result is not enough
Insufficient(result_dict) == result_dict.sample_size < 5

\* _fallback_query line 341: the title-wide result is enough
Sufficient(result_dict) == result_dict.sample_size >= 5

\* a variant that also carries the p10 column
EmptyResultWithP10 ==
  [p10 |-> None, p25 |-> None, p50 |-> None, p75 |-> None, p90 |-> None,
   sample_size |-> 0, avg_base |-> None, avg_bonus |-> None, avg_equity |-> None]

\* the dict _fallback_query returns when a query of it raises
EmptyResult ==
  [p25 |-> None, p50 |-> None, p75 |-> None, p90 |-> None, sample_size |-> 0,
   avg_base |-> None, avg_bonus |-> None, avg_equity |-> None]

\* int(x * col_multiplier * tech_premium) for x = n20 / 20 and the multipliers
\* in hundredths: floor(n20 * col * prem / 200000), split to stay in range
AdjustInt(n20, col, prem) ==
  LET a == n20 \div 1000
      b == n20 % 1000
  IN  (a * col * prem + ((b * col * prem) \div 1000)) \div 200

\* a percentile of the store result is truthy when it is not NULL and not 0
Adjusted(x, col, prem) ==
  IF Truthy(x) THEN Some(AdjustInt(Val(x), col, prem)) ELSE None

\* lines 77-93 of get_market_data: the snapshot of a result dict, or the
\* KeyError of reading a column the result does not have
BuildMarketData(result_dict, location, tech_stack) ==
  LET col_multiplier == _get_col_multiplier(location)
      tech_premium == _calculate_tech_stack_premium(tech_stack)
      Needed == {"p10", "p25", "p50", "p75", "p90", "sample_size",
                 "avg_base", "avg_bonus", "avg_equity"}
  IN  IF ~(Needed \subseteq DOMAIN result_dict) THEN [exc |-> "KeyError"]
      ELSE
        [p10 |-> Adjusted(result_dict.p10, col_multiplier, tech_premium),
         p25 |-> Adjusted(result_dict.p25, col_multiplier, tech_premium),
         p50 |-> Adjusted(result_dict.p50, col_multiplier, tech_premium),
         p75 |-> Adjusted(result_dict.p75, col_multiplier, tech_premium),
         p90 |-> Adjusted(result_dict.p90, col_multiplier, tech_premium),
         sample_size |-> result_dict.sample_size,
         avg_base |-> IF Truthy(result_dict.avg_base) THEN result_dict.avg_base ELSE None,
         avg_bonus |-> IF Truthy(result_dict.avg_bonus) THEN result_dict.avg_bonus ELSE None,
         avg_equity |-> IF Truthy(result_dict.avg_equity) THEN result_dict.avg_equity ELSE None,
         confidence |-> _calculate_confidence(result_dict.sample_size),
         data_freshness |-> IF result_dict.sample_size > 0 THEN "recent" ELSE "limited"]

\* the outer try/except of get_market_data: any exception gives the default
MarketDataOrDefault(result_dict, location, tech_stack) ==
  LET m == BuildMarketData(result_dict, location, tech_stack)
  IN  IF IsExc(m) THEN _get_default_market_data ELSE m

\* get_market_data run from entry to return on store st: day[k] is the
\* clock reading when query k is prepared and avail[k] tells whether the
\* store answers it
get_market_data(st, o, day, avail) ==
  LET title == _normalize_job_title(o.job_title)
      r1 == Step1Query(st, title, _get_location_tier(o.location),
                       o.years_experience, day[1])
      r2 == Step2Query(st, title, day[2])
      r3 == Step3Query(st, day[2])
      fallback == IF ~avail[2] THEN EmptyResult
                  ELSE IF Sufficient(r2) THEN r2
                  ELSE IF ~avail[3] THEN EmptyResult
                  ELSE r3
  IN  IF ~avail[1] THEN _get_default_market_data
      ELSE MarketDataOrDefault(IF Insufficient(r1) THEN fallback ELSE r1,
                               o.location, o.tech_stack)

---------------------------------------------------------------------------
(* services/salary_analyzer.py *)

_calculate_total_comp(offer_data) ==
  offer_data.base_salary + offer_data.bonus + offer_data.equity_value

\* market_data.get(key, 0) or 0
GetOr0(market_data, key) ==
  LET x == Get(market_data, key, Some(0))
  IN  IF Truthy(x) THEN Val(x) ELSE 0

\* a variant whose brackets include their upper threshold
VerdictLadderInclusive(total_comp, t1, t2, t3, t4) ==
  IF total_comp <= t1 THEN "SIGNIFICANTLY_UNDERPAID"
  ELSE IF total_comp <= t2 THEN "UNDERPAID"
  ELSE IF total_comp <= t3 THEN "FAIR"
  ELSE IF total_comp <= t4 THEN "COMPETITIVE"
  ELSE "EXCELLENT"

\* the if/elif ladder of _determine_verdict (lines 107-116 and 118-127)
VerdictLadder(total_comp, t1, t2, t3, t4) ==
  IF total_comp < t1 THEN "SIGNIFICANTLY_UNDERPAID"
  ELSE IF total_comp < t2 THEN "UNDERPAID"
  ELSE IF total_comp < t3 THEN "FAIR"
  ELSE IF total_comp < t4 THEN "COMPETITIVE"
  ELSE "EXCELLENT"

_determine_verdict(total_comp, market_data) ==
  LET p25 == GetOr0(market_data, "p25")
      p50 == GetOr0(market_data, "p50")
      p75 == GetOr0(market_data, "p75")
      p90 == GetOr0(market_data, "p90")
  IN  IF p50 = 0
      THEN VerdictLadder(total_comp, 70000, 90000, 120000, 150000)
      ELSE VerdictLadder(total_comp, p25, p50, p75, p90)

\* a variant that lets an EXCELLENT market verdict stand
_determine_verdict_umk_market_first(total_comp, market_data, umk_compliance) ==
  IF _determine_verdict(total_comp, market_data) = "EXCELLENT" THEN "EXCELLENT"
  ELSE IF ~umk_compliance.complies THEN "BELOW_UMK"
  ELSE _determine_verdict(total_comp, market_data)

_determine_verdict_umk(total_comp, market_data, umk_compliance) ==
  IF ~umk_compliance.complies THEN "BELOW_UMK"
  ELSE _determine_verdict(total_comp, market_data)

\* _get_fallback_analysis: the position against the market median, in tenths
\* of a percent, or the ZeroDivisionError of total_comp / p50
_get_fallback_analysis(offer_data, market_data, verdict) ==
  LET total_comp == _calculate_total_comp(offer_data)
      x == Get(market_data, "p50", Some(0))
      p50 == IF Truthy(x) THEN Val(x) ELSE total_comp
  IN  IF p50 = 0 THEN [exc |-> "ZeroDivisionError"]
      ELSE [verdict |-> verdict, total_comp |-> total_comp, p50 |-> p50,
            position |-> RoundTenths(total_comp - p50, p50)]

\* _generate_ai_analysis: the model's text when the call succeeds, the
\* fallback analysis (and whatever it raises) when it fails
_generate_ai_analysis(offer_data, market_data, verdict, aiOk) ==
  IF aiOk THEN [text |-> "generated"]
  ELSE _get_fallback_analysis(offer_data, market_data, verdict)

\* a variant that takes the lower of the two
ConservativeTargetLower(raised, p75) == Min(raised, p75)

\* line 269: max(current_comp * 1.05, p75), both in two-hundredths
ConservativeTarget(raised, p75) == Max(raised, p75)

\* _calculate_negotiation_room.  Targets are computed in two-hundredths
\* (x * 1.05 = 210 x / 200, x * 1.1 = 220 x / 200, x * 1.2 = 240 x / 200);
\* int() truncates; the percentages, in tenths, use the untruncated targets.
_calculate_negotiation_room(current_comp, market_data) ==
  IF current_comp = 0
  THEN [conservative |-> 0, realistic |-> 0, aggressive |-> 0,
        percentage_increase |-> [conservative |-> 0, realistic |-> 0, aggressive |-> 0]]
  ELSE
    LET x75 == Get(market_data, "p75", None)
        x90 == Get(market_data, "p90", None)
        p75 == IF Truthy(x75) THEN 200 * Val(x75) ELSE 220 * current_comp
        p90 == IF Truthy(x90) THEN 200 * Val(x90) ELSE 240 * current_comp
        conservative == ConservativeTarget(210 * current_comp, p75)
        aggressive == p90
        realistic == (conservative + aggressive) \div 2
        Pct(t) == RoundTenths(t - 200 * current_comp, 200 * current_comp)
    IN  [conservative |-> conservative \div 200,
         realistic |-> realistic \div 200,
         aggressive |-> aggressive \div 200,
         percentage_increase |->
           [conservative |-> Pct(conservative),
            realistic |-> Pct(realistic),
            aggressive |-> Pct(aggressive)]]

\* a variant in which the list outlives the call: the points already returned
SharedLeveragePoints ==
  LET Points(i) == IF result[i] # None /\ "leverage_points" \in DOMAIN Val(result[i])
                   THEN Val(result[i]).leverage_points ELSE << >>
  IN  Points(1) \o Points(2)

\* line 296: leverage_points = [], a fresh list per call
InitialLeveragePoints == << >>

hot_tech ==
  << "rust", "golang", "kubernetes", "ai", "ml", "blockchain",
     "tensorflow", "pytorch", "aws", "azure", "gcp" >>

\* a variant that appends the experience point before the technology premium
LeveragePointsExperienceFirst(market_rate, tech_points, experience, missing_equity, missing_bonus, competition) ==
  InitialLeveragePoints \o market_rate \o experience \o tech_points
    \o missing_equity \o missing_bonus \o competition

\* the appends of lines 302-361 in the order they are made
LeveragePoints(market_rate, tech_points, experience, missing_equity, missing_bonus, competition) ==
  InitialLeveragePoints \o market_rate \o tech_points \o experience
    \o missing_equity \o missing_bonus \o competition

\* _extract_leverage_points: [points |-> the list], or the TypeError of
\* comparing a None median with the base salary
_extract_leverage_points(offer_data, market_data) ==
  LET p50 == Get(market_data, "p50", Some(0))
      current_base == offer_data.base_salary
      user_tech == [k \in 1..Len(offer_data.tech_stack) |-> Lower(offer_data.tech_stack[k])]
      InUser(tech) == \E k \in 1..Len(user_tech) : user_tech[k] = tech
      matching_hot_tech == SelectSeq(hot_tech, InUser)
      years_exp == offer_data.years_experience
      market_rate ==
        IF Val(p50) > current_base
        THEN << [type |-> "market_rate", strength |-> "strong",
                 amount |-> Val(p50) - current_base, techs |-> << >>] >>
        ELSE << >>
      tech_points ==
        IF Len(matching_hot_tech) > 0
        THEN << [type |-> "tech_premium",
                 strength |-> IF Len(matching_hot_tech) < 3 THEN "medium" ELSE "strong",
                 amount |-> 0,
                 techs |-> SubSeq(matching_hot_tech, 1, Min(3, Len(matching_hot_tech)))] >>
        ELSE << >>
      experience ==
        IF years_exp >= 10
        THEN << [type |-> "experience", strength |-> "strong", amount |-> years_exp, techs |-> << >>] >>
        ELSE IF years_exp >= 5
        THEN << [type |-> "experience", strength |-> "medium", amount |-> years_exp, techs |-> << >>] >>
        ELSE << >>
      missing_equity ==
        IF Get(offer_data, "equity_value", 0) = 0 /\ Len(Get(offer_data, "company", "")) > 0
        THEN << [type |-> "missing_equity", strength |-> "medium", amount |-> 0, techs |-> << >>] >>
        ELSE << >>
      missing_bonus ==
        IF Get(offer_data, "bonus", 0) = 0 /\ Get(offer_data, "base_salary", 0) > 80000
        THEN << [type |-> "missing_bonus", strength |-> "weak", amount |-> 0, techs |-> << >>] >>
        ELSE << >>
      competition ==
        IF offer_data.has_competing_offers
        THEN << [type |-> "competition", strength |-> "strong", amount |-> 0, techs |-> << >>] >>
        ELSE << >>
  IN  IF p50 = None THEN [exc |-> "TypeError"]
      ELSE [points |-> LeveragePoints(market_rate, tech_points, experience,
                                      missing_equity, missing_bonus, competition)]

\* analyze_offer after the market data is in: the assessment, or the
\* ValueError analyze_offer raises when any step raised
AnalyzeWith(offer_data, market_data, aiOk) ==
  LET total_comp == _calculate_total_comp(offer_data)
      umk_data == get_umk_for_location(offer_data.location)
      umk_compliance == calculate_umk_compliance(offer_data.base_salary, umk_data)
      verdict == _determine_verdict_umk(total_comp, market_data, umk_compliance)
      ai_analysis == _generate_ai_analysis(offer_data, market_data, verdict, aiOk)
      leverage == _extract_leverage_points(offer_data, market_data)
  IN  IF IsExc(ai_analysis) \/ IsExc(leverage) THEN [exc |-> "ValueError"]
      ELSE [offer_data |-> offer_data,
            market_data |-> market_data,
            total_compensation |-> total_comp,
            verdict |-> verdict,
            analysis |-> ai_analysis,
            negotiation_room |-> _calculate_negotiation_room(total_comp, market_data),
            leverage_points |-> leverage.points,
            umk_data |-> umk_data,
            umk_compliance |-> umk_compliance]

---------------------------------------------------------------------------
(* Bounds and inputs of the assessment runs *)

MaxNow == 1

\* two analyze_offer calls, running in any interleaving
Calls == {1, 2}

Offer(title, company, location, base, bonus, equity, yrs, tech, competing) ==
  [job_title |-> title, company |-> company, location |-> location,
   base_salary |-> base, bonus |-> bonus, equity_value |-> equity,
   years_experience |-> yrs, tech_stack |-> tech, has_competing_offers |-> competing]

Offers ==
  { Offer("Senior Software Engineer", "Acme", "San Francisco, CA",
          100000, 0, 0, 6, <<"Rust", "AI">>, TRUE),
    Offer("Backend Developer", "", "Jakarta", 3000000, 0, 0, 3, << >>, FALSE),
    Offer("Backend Developer", "Tokopedia", "Kota Bandung",
          6000000, 500000, 0, 3, <<"golang">>, FALSE) }

\* five fresh verified senior samples in tier1, one of them on the edge of the
\* 540-day window on day 0, plus rows the step-1 filter must leave out
StoreFull ==
  << Sample("senior_software_engineer", "tier1", 5, 150000, 0, 0, TRUE, -539),
     Sample("senior_software_engineer", "tier1", 6, 140000, 20000, 0, TRUE, -30),
     Sample("senior_software_engineer", "tier1", 6, 150000, 10000, 10000, TRUE, -60),
     Sample("senior_software_engineer", "tier1", 7, 160000, 20000, 0, TRUE, -90),
     Sample("senior_software_engineer", "tier1", 8, 170000, 20000, 10000, TRUE, -10),
     Sample("senior_software_engineer", "tier1", 6, 400000, 0, 0, FALSE, -10),
     Sample("senior_software_engineer", "tier1", 6, 90000, 0, 0, TRUE, -600),
     Sample("software_engineer", "tier3", 3, 80000, 5000, 0, TRUE, -20),
     Sample("software_engineer", "tier3", 4, 85000, 5000, 0, TRUE, -20) >>

\* three step-1 matches; the title has six verified rows within 730 days
StoreTitle ==
  << Sample("senior_software_engineer", "tier1", 5, 150000, 0, 0, TRUE, -100),
     Sample("senior_software_engineer", "tier1", 6, 160000, 0, 0, TRUE, -100),
     Sample("senior_software_engineer", "tier1", 7, 170000, 0, 0, TRUE, -100),
     Sample("senior_software_engineer", "tier2", 6, 130000, 0, 0, TRUE, -600),
     Sample("senior_software_engineer", "tier3", 12, 120000, 0, 0, TRUE, -700),
     Sample("senior_software_engineer", "remote", 2, 110000, 0, 0, TRUE, -729),
     Sample("software_engineer", "tier3", 3, 80000, 0, 0, TRUE, -20) >>

\* three step-1 matches; only the whole store has five verified rows
StoreAny ==
  << Sample("senior_software_engineer", "tier1", 5, 150000, 0, 0, TRUE, -100),
     Sample("senior_software_engineer", "tier1", 6, 160000, 0, 0, TRUE, -100),
     Sample("senior_software_engineer", "tier1", 7, 170000, 0, 0, TRUE, -100),
     Sample("product_manager", "tier2", 6, 130000, 0, 0, TRUE, -200),
     Sample("data_scientist", "tier3", 4, 120000, 0, 0, TRUE, -300),
     Sample("software_engineer", "tier3", 3, 80000, 0, 0, TRUE, -20) >>

StoreEmpty == << >>

Stores == {StoreFull, StoreTitle, StoreAny, StoreEmpty}

---------------------------------------------------------------------------
(* Assessment runs: analyze_offer, one store round trip per step *)

PipeInit ==
  /\ now = 0
  /\ pc = [i \in Calls |-> "idle"]
  /\ offer = [i \in Calls |-> None]
  /\ queries = [i \in Calls |-> << >>]
  /\ market = [i \in Calls |-> None]
  /\ result = [i \in Calls |-> None]

FnIdle == fn = "none" /\ arg = None /\ ret = None

\* no admin request in flight, umk_data not yet seeded
UmkIdle == umk_table = << >> /\ admin = << >> /\ assessed = None

Init == store \in Stores /\ PipeInit /\ FnIdle /\ UmkIdle

Logged(i, step, ok, size) ==
  [queries EXCEPT ![i] = Append(@, [step |-> step, at |-> now, ok |-> ok,
                                    sample_size |-> size])]

\* a variant in which the service keeps one snapshot for all calls
ReturnedShared(i, snapshot) ==
  /\ market' = [j \in Calls |-> IF j = i \/ market[j] # None THEN Some(snapshot)
                                 ELSE market[j]]
  /\ pc' = [pc EXCEPT ![i] = "analyze"]

\* get_market_data returns: the call goes on to the rest of analyze_offer
Returned(i, snapshot) ==
  /\ market' = [market EXCEPT ![i] = Some(snapshot)]
  /\ pc' = [pc EXCEPT ![i] = "analyze"]

\* main.py analyze_offer -> SalaryAnalyzer.analyze_offer is entered
Start(i, o) ==
  /\ pc[i] = "idle"
  /\ offer' = [offer EXCEPT ![i] = Some(o)]
  /\ pc' = [pc EXCEPT ![i] = "step1"]
  /\ UNCHANGED <<store, now, queries, market, result, fnVars, umkVars>>

\* get_market_data lines 26-75 and, when the result has 5 samples, 77-96
QueryStep1(i, ok) ==
  /\ pc[i] = "step1"
  /\ LET o == Val(offer[i])
         result_dict == Step1Query(store, _normalize_job_title(o.job_title),
                                   _get_location_tier(o.location),
                                   o.years_experience, now)
     IN  IF ~ok
         THEN /\ queries' = Logged(i, 1, FALSE, None)
              /\ Returned(i, _get_default_market_data)
         ELSE /\ queries' = Logged(i, 1, TRUE, Some(result_dict.sample_size))
              /\ IF Insufficient(result_dict)
                 THEN /\ pc' = [pc EXCEPT ![i] = "step2"]
                      /\ UNCHANGED market
                 ELSE Returned(i, MarketDataOrDefault(result_dict, o.location, o.tech_stack))
  /\ UNCHANGED <<store, now, offer, result, fnVars, umkVars>>

\* _fallback_query lines 313-342 and, on return, get_market_data lines 77-104
QueryStep2(i, ok) ==
  /\ pc[i] = "step2"
  /\ LET o == Val(offer[i])
         result_dict == Step2Query(store, _normalize_job_title(o.job_title), now)
     IN  IF ~ok
         THEN /\ queries' = Logged(i, 2, FALSE, None)
              /\ Returned(i, MarketDataOrDefault(EmptyResult, o.location, o.tech_stack))
         ELSE /\ queries' = Logged(i, 2, TRUE, Some(result_dict.sample_size))
              /\ IF Sufficient(result_dict)
                 THEN Returned(i, MarketDataOrDefault(result_dict, o.location, o.tech_stack))
                 ELSE /\ pc' = [pc EXCEPT ![i] = "step3"]
                      /\ UNCHANGED market
  /\ UNCHANGED <<store, now, offer, result, fnVars, umkVars>>

\* _fallback_query lines 344-376 and, on return, get_market_data lines 77-104;
\* the broader query reuses the cutoff_date computed for the first one (line 332)
QueryStep3(i, ok) ==
  /\ pc[i] = "step3"
  /\ LET o == Val(offer[i])
         result_dict == Step3Query(store, queries[i][2].at)
     IN  IF ~ok
         THEN /\ queries' = Logged(i, 3, FALSE, None)
              /\ Returned(i, MarketDataOrDefault(EmptyResult, o.location, o.tech_stack))
         ELSE /\ queries' = Logged(i, 3, TRUE, Some(result_dict.sample_size))
              /\ Returned(i, MarketDataOrDefault(result_dict, o.location, o.tech_stack))
  /\ UNCHANGED <<store, now, offer, result, fnVars, umkVars>>

\* analyze_offer lines 35-84
Analyze(i, aiOk) ==
  /\ pc[i] = "analyze"
  /\ result' = [result EXCEPT ![i] = Some(AnalyzeWith(Val(offer[i]), Val(market[i]), aiOk))]
  /\ pc' = [pc EXCEPT ![i] = "done"]
  /\ UNCHANGED <<store, now, offer, queries, market, fnVars, umkVars>>

\* a day passes
Tick ==
  /\ now < MaxNow
  /\ now' = now + 1
  /\ UNCHANGED <<store, pc, offer, queries, market, result, fnVars, umkVars>>

Next ==
  \/ \E i \in Calls, o \in Offers : Start(i, o)
  \/ \E i \in Calls, ok \in BOOLEAN : QueryStep1(i, ok)
  \/ \E i \in Calls, ok \in BOOLEAN : QueryStep2(i, ok)
  \/ \E i \in Calls, ok \in BOOLEAN : QueryStep3(i, ok)
  \/ \E i \in Calls, aiOk \in BOOLEAN : Analyze(i, aiOk)
  \/ Tick

Spec == Init /\ [][Next]_vars

---------------------------------------------------------------------------
(* Function-level runs: one function of the analyzer applied to inputs     *)
(* drawn from bounded sets                                                  *)

Absent == <<0, 0>>

FnKeys == {"p25", "p50", "p75", "p90"}

\* per key: the key missing from the dict, None, 0, or a value
FnPercentiles ==
  [p25 |-> {Absent, None, Some(0), Some(75000)},
   p50 |-> {Absent, None, Some(0), Some(95000)},
   p75 |-> {Absent, None, Some(0), Some(100000), Some(120000)},
   p90 |-> {Absent, None, Some(0), Some(100005), Some(150000)}]

FnMarkets ==
  { [k \in {x \in FnKeys : m[x] # Absent} |-> m[k]] :
      m \in {f \in [FnKeys -> UNION {FnPercentiles[k] : k \in FnKeys}] :
               \A k \in FnKeys : f[k] \in FnPercentiles[k]} }

FnBases == {0, 9000, 11000, 14996, 15000, 60000, 70000, 75000,
            100000, 100010, 130000, 160000}

FnBonuses == {0, 20000}

FnUmk == {None, Some([umk |-> 0]), Some([umk |-> 10000]), Some([umk |-> 5067823])}

FnArgs ==
  { [offer_data |-> Offer("", "", "", b, x, 0, 0, << >>, FALSE),
     market_data |-> m, umk_data |-> u] :
      b \in FnBases, x \in FnBonuses, m \in FnMarkets, u \in FnUmk }

FnInit ==
  /\ store = StoreEmpty
  /\ PipeInit
  /\ fn = "none"
  /\ arg \in {Some(a) : a \in FnArgs}
  /\ ret = None
  /\ UmkIdle

Applied(name, value) ==
  /\ fn = "none"
  /\ fn' = name
  /\ ret' = Some(value)
  /\ UNCHANGED <<arg, pipeVars, umkVars>>

ApplyCompliance ==
  Applied("calculate_umk_compliance",
          calculate_umk_compliance(Val(arg).offer_data.base_salary, Val(arg).umk_data))

ApplyVerdict ==
  LET a == Val(arg)
      umk_compliance == calculate_umk_compliance(a.offer_data.base_salary, a.umk_data)
  IN  Applied("_determine_verdict_umk",
              _determine_verdict_umk(_calculate_total_comp(a.offer_data),
                                     a.market_data, umk_compliance))

ApplyNegotiationRoom ==
  Applied("_calculate_negotiation_room",
          _calculate_negotiation_room(_calculate_total_comp(Val(arg).offer_data),
                                      Val(arg).market_data))

ApplyFallbackAnalysis ==
  Applied("_get_fallback_analysis",
          _get_fallback_analysis(Val(arg).offer_data, Val(arg).market_data, "FAIR"))

FnNext ==
  \/ ApplyCompliance
  \/ ApplyVerdict
  \/ ApplyNegotiationRoom
  \/ ApplyFallbackAnalysis

FnSpec == FnInit /\ [][FnNext]_vars

---------------------------------------------------------------------------
(* Claims on the function-level runs (FnSpec) *)

FnOffer == Val(arg).offer_data

FnMarket == Val(arg).market_data

FnTotal == FnOffer.base_salary + FnOffer.bonus + FnOffer.equity_value

FnCompliance == calculate_umk_compliance(FnOffer.base_salary, Val(arg).umk_data)

\* the value of a percentile of the snapshot when it is present and non-zero
FnHas(key) == key \in DOMAIN FnMarket /\ Truthy(FnMarket[key])

FnPct(key) == IF FnHas(key) THEN Val(FnMarket[key]) ELSE 0

\* C1: a non-compliant compliance result always gives BELOW_UMK, whatever the
\* total and the snapshot; a compliant one gives the market verdict
TheoremC1 ==
  fn = "_determine_verdict_umk" =>
    /\ ~FnCompliance.complies => Val(ret) = "BELOW_UMK"
    /\ FnCompliance.complies =>
         /\ Val(ret) # "BELOW_UMK"
         /\ Val(ret) = _determine_verdict(FnTotal, FnMarket)

\* a non-compliant offer whose total is at or above p90
WitnessC1 ==
  /\ fn = "_determine_verdict_umk"
  /\ ~FnCompliance.complies
  /\ FnHas("p50") /\ FnHas("p90") /\ FnTotal >= FnPct("p90")
  /\ Val(ret) = "BELOW_UMK"

ExpectedLadder(t, t1, t2, t3, t4) ==
  CASE t < t1 -> "SIGNIFICANTLY_UNDERPAID"
    [] t >= t1 /\ t < t2 -> "UNDERPAID"
    [] t >= t1 /\ t >= t2 /\ t < t3 -> "FAIR"
    [] t >= t1 /\ t >= t2 /\ t >= t3 /\ t < t4 -> "COMPETITIVE"
    [] OTHER -> "EXCELLENT"

\* C7: for a compliant offer the verdict is the five-tier ladder over p25,
\* p50, p75, p90 when p50 is present and non-zero (an absent percentile never
\* exceeds the total), and over 70000, 90000, 120000, 150000 otherwise
TheoremC7 ==
  (fn = "_determine_verdict_umk" /\ FnCompliance.complies) =>
    IF FnHas("p50")
    THEN Val(ret) = ExpectedLadder(FnTotal, FnPct("p25"), FnPct("p50"),
                                   FnPct("p75"), FnPct("p90"))
    ELSE Val(ret) = ExpectedLadder(FnTotal, 70000, 90000, 120000, 150000)

\* a total equal to p75 is COMPETITIVE, not FAIR
WitnessC7 ==
  /\ fn = "_determine_verdict_umk"
  /\ FnCompliance.complies
  /\ FnHas("p25") /\ FnHas("p50") /\ FnHas("p75") /\ FnHas("p90")
  /\ FnTotal = FnPct("p75")
  /\ Val(ret) = "COMPETITIVE"

\* the targets before int(), in two-hundredths
FnP75x200 == IF FnHas("p75") THEN 200 * FnPct("p75") ELSE 220 * FnTotal

FnP90x200 == IF FnHas("p90") THEN 200 * FnPct("p90") ELSE 240 * FnTotal

FnConservativex200 == Max(210 * FnTotal, FnP75x200)

FnRealisticx200 == (FnConservativex200 + FnP90x200) \div 2

FnIncrease(t200) == RoundTenths(t200 - 200 * FnTotal, 200 * FnTotal)

FnIncreasesAsClaimed ==
  /\ Val(ret).percentage_increase.conservative = FnIncrease(FnConservativex200)
  /\ Val(ret).percentage_increase.realistic = FnIncrease(FnRealisticx200)
  /\ Val(ret).percentage_increase.aggressive = FnIncrease(FnP90x200)

FnExampleC8 ==
  (FnTotal = 100000 /\ FnPct("p75") = 120000 /\ FnPct("p90") = 150000) =>
    /\ Val(ret).conservative = 120000
    /\ Val(ret).realistic = 135000
    /\ Val(ret).aggressive = 150000
    /\ Val(ret).percentage_increase =
         [conservative |-> 200, realistic |-> 350, aggressive |-> 500]

\* C8 as stated: the three targets are exactly max(total * 1.05, p75 or
\* total * 1.1), p90 or total * 1.2, and their midpoint
OriginalC8 ==
  (fn = "_calculate_negotiation_room" /\ FnTotal > 0) =>
    /\ 200 * Val(ret).conservative = FnConservativex200
    /\ 200 * Val(ret).aggressive = FnP90x200
    /\ 200 * Val(ret).realistic = FnRealisticx200
    /\ FnIncreasesAsClaimed
    /\ FnExampleC8

\* C8, amended: each reported target is that value truncated to an integer
\* (the midpoint is taken before truncation), and the percentage increases
\* are computed from the untruncated targets
TheoremC8 ==
  (fn = "_calculate_negotiation_room" /\ FnTotal > 0) =>
    /\ Val(ret).conservative = FnConservativex200 \div 200
    /\ Val(ret).aggressive = FnP90x200 \div 200
    /\ Val(ret).realistic = FnRealisticx200 \div 200
    /\ FnIncreasesAsClaimed
    /\ FnExampleC8

\* total 100010 against p75 100000: the 5 percent target 105010.5 is reported
\* as 105010, with an increase of 5.0 percent
WitnessC8 ==
  /\ fn = "_calculate_negotiation_room"
  /\ FnTotal = 100010
  /\ FnPct("p75") = 100000
  /\ Val(ret).conservative = 105010
  /\ Val(ret).percentage_increase.conservative = 50

---------------------------------------------------------------------------
(* Claims on the assessment runs (Spec) *)

\* the store answered every query the call has issued so far
AllOk(i) == \A k \in 1..Len(queries[i]) : queries[i][k].ok

\* the clock reading and the store's availability at each query of the call
Env(i) == [k \in 1..Len(queries[i]) |-> <<queries[i][k].at, queries[i][k].ok>>]

\* what the store holds for a logged query of call i, at the time it was issued
StepResult(i, q) ==
  LET o == Val(offer[i])
      title == _normalize_job_title(o.job_title)
  IN  CASE q.step = 1 -> Step1Query(store, title, _get_location_tier(o.location),
                                    o.years_experience, q.at)
        [] q.step = 2 -> Step2Query(store, title, q.at)
        [] OTHER -> Step3Query(store, queries[i][2].at)

\* C2: when the store answers every query, the snapshot returned carries the
\* sample_size and the adjusted percentiles of the last step queried (the
\* first of steps 1 and 2 with at least 5 samples, else step 3), and is not
\* the fixed default snapshot
OriginalC2 ==
  \A i \in Calls :
    (market[i] # None /\ AllOk(i)) =>
      LET q == queries[i][Len(queries[i])]
          r == StepResult(i, q)
          o == Val(offer[i])
          col == _get_col_multiplier(o.location)
          prem == _calculate_tech_stack_premium(o.tech_stack)
          m == Val(market[i])
      IN  /\ m.sample_size = r.sample_size
          /\ m.p25 = Adjusted(r.p25, col, prem)
          /\ m.p50 = Adjusted(r.p50, col, prem)
          /\ m.p75 = Adjusted(r.p75, col, prem)
          /\ m.p90 = Adjusted(r.p90, col, prem)
          /\ m.data_freshness # "estimated"

\* C3: the queries of a call are step 1, step 2, step 3 in this order, each
\* at most once; step 2 is issued exactly when step 1 answered with fewer
\* than 5 samples, step 3 exactly when step 2 answered with fewer than 5; the
\* size step 1 reports is the number of rows matching the offer
TheoremC3 ==
  \A i \in Calls :
    LET q == queries[i]
        n == Len(q)
        Short(k) == q[k].ok /\ Val(q[k].sample_size) < 5
        o == Val(offer[i])
        title == _normalize_job_title(o.job_title)
        tier == _get_location_tier(o.location)
        Matching ==
          {k \in 1..Len(store) :
             /\ store[k].normalized_title = title
             /\ store[k].location_tier = tier
             /\ store[k].years_experience \in
                  (o.years_experience - 2)..(o.years_experience + 2)
             /\ store[k].is_verified
             /\ q[1].at - store[k].submitted_date < 540}
    IN  /\ n <= 3
        /\ \A k \in 1..n : q[k].step = k
        /\ n >= 2 => Short(1)
        /\ n >= 3 => Short(2)
        /\ (n >= 1 /\ q[1].ok) => Val(q[1].sample_size) = Cardinality(Matching)
        /\ market[i] # None =>
             /\ n >= 1
             /\ Short(1) => n >= 2
             /\ (n >= 2 /\ Short(2)) => n = 3

\* a call whose step 1 found 3 samples and which returned after step 2
WitnessC3 ==
  \E i \in Calls :
    /\ market[i] # None
    /\ Len(queries[i]) = 2
    /\ queries[i][1].sample_size = Some(3)
    /\ queries[i][2].ok

\* C4: a failed query is the last query of its call, the call goes on to the
\* rest of the assessment with the fixed default snapshot (60000, 75000,
\* 95000, 120000, 150000, sample_size 0, very_low, estimated), and the
\* assessment holds that snapshot
TheoremC4 ==
  \A i \in Calls : \A k \in 1..Len(queries[i]) :
    ~queries[i][k].ok =>
      /\ k = Len(queries[i])
      /\ queries[i][k].step = k
      /\ pc[i] \in {"analyze", "done"}
      /\ market[i] # None
      /\ ~IsExc(Val(market[i]))
      /\ LET m == Val(market[i])
         IN  /\ <<m.p10, m.p25, m.p50, m.p75, m.p90>> =
                  <<Some(60000), Some(75000), Some(95000), Some(120000), Some(150000)>>
             /\ m.sample_size = 0
             /\ m.confidence = "very_low"
             /\ m.data_freshness = "estimated"
      /\ result[i] # None =>
           /\ ~IsExc(Val(result[i]))
           /\ Val(result[i]).market_data = Val(market[i])

\* a call whose third query failed and whose assessment is complete
WitnessC4 ==
  \E i \in Calls :
    /\ Len(queries[i]) = 3
    /\ ~queries[i][3].ok
    /\ pc[i] = "done"
    /\ Val(result[i]).market_data.data_freshness = "estimated"

\* C6 as stated: with a null lookup the compliance result is marked neither
\* compliant nor non-compliant
OriginalC6 ==
  \A i \in Calls :
    (pc[i] = "done" /\ Val(result[i]).umk_data = None) =>
      LET c == Val(result[i]).umk_compliance
      IN  "complies" \in DOMAIN c => c.complies \notin {TRUE, FALSE}

\* C6, amended: with a null lookup the compliance result is marked compliant,
\* with null percentage and difference and no risk level, and the verdict is
\* the market verdict, never BELOW_UMK
TheoremC6 ==
  \A i \in Calls :
    (pc[i] = "done" /\ Val(result[i]).umk_data = None) =>
      LET r == Val(result[i])
          c == r.umk_compliance
      IN  /\ c.complies = TRUE
          /\ c.percentage_above_umk = None
          /\ c.difference = None
          /\ "risk_level" \notin DOMAIN c
          /\ r.verdict # "BELOW_UMK"
          /\ r.verdict = _determine_verdict(r.total_compensation, r.market_data)

\* a completed assessment of an offer in a location without UMK data
WitnessC6 ==
  \E i \in Calls :
    /\ pc[i] = "done"
    /\ Val(offer[i]).location = "San Francisco, CA"
    /\ Val(result[i]).umk_data = None
    /\ Val(result[i]).umk_compliance.complies

\* the parts of an assessment that C10 compares
Compared(i) ==
  LET r == Val(result[i])
  IN  <<r.market_data, r.umk_compliance, r.verdict, r.negotiation_room,
        r.leverage_points>>

\* C10 as stated: two completed calls with the same offer on the same store,
\* each of whose queries the store answered, give the same snapshot,
\* compliance result, verdict, negotiation range and leverage points
OriginalC10 ==
  \A i, j \in Calls :
    (pc[i] = "done" /\ pc[j] = "done" /\ offer[i] = offer[j]
       /\ AllOk(i) /\ AllOk(j)) =>
      Compared(i) = Compared(j)

\* C10, amended: the same holds for two calls whose queries see the same
\* clock reading and the same store availability, step by step
TheoremC10 ==
  \A i, j \in Calls :
    (pc[i] = "done" /\ pc[j] = "done" /\ offer[i] = offer[j]
       /\ Env(i) = Env(j)) =>
      /\ Compared(i) = Compared(j)
      /\ market[i] = market[j]

\* two completed calls with the same offer, both served from five samples
WitnessC10 ==
  /\ pc[1] = "done" /\ pc[2] = "done"
  /\ offer[1] = offer[2]
  /\ Env(1) = Env(2)
  /\ Val(market[1]).sample_size = 5
  /\ Len(Val(result[2]).leverage_points) > 0

---------------------------------------------------------------------------
(* Concurrent assessments *)

\* the clock readings and the availability met by the queries of call i
DayOf(i) == [k \in 1..3 |-> IF k <= Len(queries[i]) THEN queries[i][k].at ELSE 0]

AvailOf(i) == [k \in 1..3 |-> IF k <= Len(queries[i]) THEN queries[i][k].ok ELSE TRUE]

\* a step that hands call i a snapshot hands it the one get_market_data gives
\* when run by itself on the store, and a step that completes call i returns
\* the assessment of the snapshot the call holds
AsAlone(i) ==
  /\ market'[i] # market[i] =>
       Val(market'[i]) = get_market_data(store, Val(offer[i]), DayOf(i)', AvailOf(i)')
  /\ result'[i] # result[i] =>
       \E aiOk \in BOOLEAN :
         Val(result'[i]) = AnalyzeWith(Val(offer[i]), Val(market[i]), aiOk)

\* C11: under every interleaving each call returns the snapshot and the
\* assessment it returns when run by itself on the same store, and no step of
\* an assessment changes the sample store or the umk_data table
TheoremC11 ==
  [][/\ \A i \in Calls : AsAlone(i)
     /\ store' = store
     /\ umk_table' = umk_table]_vars

\* one call has completed on the default snapshot while another, for a
\* different offer, holds a snapshot built from five samples
WitnessC11 ==
  \E i, j \in Calls :
    /\ pc[i] = "done" /\ pc[j] = "analyze"
    /\ offer[i] # offer[j]
    /\ Val(result[i]).market_data.sample_size = 0
    /\ Val(market[j]).sample_size = 5

---------------------------------------------------------------------------
(* Snapshot runs: lines 77-104 of get_market_data applied to a store result *)

\* percentiles of a store result, in twentieths, non-decreasing; the last is
\* the aggregate of no rows
SnapPercentiles ==
  { <<Some(1600000), Some(2000000), Some(2400000), Some(3000000), Some(3600000)>>,
    <<Some(2000000), Some(2000000), Some(2000000), Some(2000000), Some(2000000)>>,
    <<Some(2000001), Some(2000002), Some(2000003), Some(2000004), Some(2000005)>>,
    <<Some(1999999), Some(2000000), Some(2000000), Some(2000013), Some(7999987)>>,
    <<None, None, None, None, None>> }

\* avg_base, avg_bonus, avg_equity of a store result
SnapAverages ==
  { <<Some(150000), Some(15000), Some(5000)>>,
    <<Some(150000), Some(0), None>>,
    <<None, None, None>> }

SnapSizes == {0, 5, 9, 10, 29, 30, 99, 100}

SnapLocations == {"San Francisco, CA", "Austin, TX", "Remote", "Jakarta", ""}

SnapTechStacks == { << >>, <<"Rust", "AI">>, <<"docker">>, <<"cobol">> }

\* a row of the specific query (with p10) or of a fallback query (without);
\* the aggregates of no rows are all NULL
SnapResult(p, a, n, withP10) ==
  LET rest == [p25 |-> p[2], p50 |-> p[3], p75 |-> p[4], p90 |-> p[5],
               sample_size |-> n,
               avg_base |-> a[1], avg_bonus |-> a[2], avg_equity |-> a[3]]
  IN  IF withP10
      THEN [k \in DOMAIN rest \cup {"p10"} |-> IF k = "p10" THEN p[1] ELSE rest[k]]
      ELSE rest

SnapArgs ==
  { [result_dict |-> SnapResult(x[1], x[2], x[3], w), location |-> l, tech_stack |-> t] :
      x \in {y \in SnapPercentiles \X SnapAverages \X SnapSizes :
               /\ (y[3] = 0) = (y[1][3] = None)
               /\ (y[3] = 0) = (y[2][1] = None)},
      w \in BOOLEAN, l \in SnapLocations, t \in SnapTechStacks }

SnapInit ==
  /\ store = StoreEmpty
  /\ PipeInit
  /\ fn = "none"
  /\ arg \in {Some(a) : a \in SnapArgs}
  /\ ret = None
  /\ UmkIdle

ApplySnapshot ==
  Applied("get_market_data",
          MarketDataOrDefault(Val(arg).result_dict, Val(arg).location,
                              Val(arg).tech_stack))

SnapNext == ApplySnapshot

SnapSpec == SnapInit /\ [][SnapNext]_vars

SnapIn == Val(arg).result_dict

SnapCol == _get_col_multiplier(Val(arg).location)

SnapPremium == _calculate_tech_stack_premium(Val(arg).tech_stack)

\* the snapshot was built from the store result, not replaced by the default
SnapFromStore == fn = "get_market_data" /\ "p10" \in DOMAIN SnapIn

\* value x col_multiplier x tech_premium truncated, null staying null; x is
\* in twentieths and the product is taken in two parts to stay in range
SnapScaled(x) ==
  IF x = None THEN None
  ELSE LET cp == SnapCol * SnapPremium
           thousands == Val(x) \div 1000
           units == Val(x) % 1000
       IN  Some((thousands * cp + (units * cp) \div 1000) \div 200)

\* C12: in a snapshot built from a store result the five percentiles and the
\* three averages are the store's values times col_multiplier times
\* tech_premium, truncated, and a null store value stays null
OriginalC12 ==
  SnapFromStore =>
    /\ Val(ret).p10 = SnapScaled(SnapIn.p10)
    /\ Val(ret).p25 = SnapScaled(SnapIn.p25)
    /\ Val(ret).p50 = SnapScaled(SnapIn.p50)
    /\ Val(ret).p75 = SnapScaled(SnapIn.p75)
    /\ Val(ret).p90 = SnapScaled(SnapIn.p90)
    /\ \A k \in {"avg_base", "avg_bonus", "avg_equity"} :
         Val(ret)[k] = IF SnapIn[k] = None THEN None
                       ELSE SnapScaled(Some(20 * Val(SnapIn[k])))

\* all five percentiles of the snapshot returned are present
SnapComplete ==
  \A k \in {"p10", "p25", "p50", "p75", "p90"} : Val(ret)[k] # None

\* C13: a returned snapshot with all five percentiles has them in
\* non-decreasing order, whether it was built from a store result or is the
\* default snapshot
TheoremC13 ==
  (fn = "get_market_data" /\ SnapComplete) =>
    LET m == Val(ret)
    IN  /\ Val(m.p10) <= Val(m.p25)
        /\ Val(m.p25) <= Val(m.p50)
        /\ Val(m.p50) <= Val(m.p75)
        /\ Val(m.p75) <= Val(m.p90)

\* store percentiles one twentieth apart, adjusted by 1.52 x 1.25: the
\* truncated values coincide or follow each other
WitnessC13 ==
  /\ SnapFromStore /\ SnapComplete
  /\ SnapIn.p10 = Some(2000001) /\ SnapIn.p90 = Some(2000005)
  /\ SnapCol = 152 /\ SnapPremium = 125
  /\ Val(Val(ret).p10) = 190000
  /\ Val(Val(ret).p90) >= 190000

---------------------------------------------------------------------------
(* Labels of the snapshots of the assessment runs *)

\* C14: in every snapshot handed to a call the confidence label follows from
\* sample_size alone (high from 100, medium from 30, low from 10, else
\* very_low); the freshness label is recent when sample_size > 0, limited
\* when the store answered every query and the result used has no samples,
\* and estimated only when a query failed
OriginalC14 ==
  \A i \in Calls :
    market[i] # None =>
      LET m == Val(market[i])
          n == m.sample_size
      IN  /\ m.confidence = CASE n >= 100 -> "high"
                              [] n >= 30 /\ n < 100 -> "medium"
                              [] n >= 10 /\ n < 30 -> "low"
                              [] OTHER -> "very_low"
          /\ n > 0 => m.data_freshness = "recent"
          /\ (n = 0 /\ AllOk(i)) => m.data_freshness = "limited"
          /\ m.data_freshness = "estimated" => ~AllOk(i)

---------------------------------------------------------------------------
(* Store-scope runs: get_market_data on a store and on the same store with  *)
(* one row added, removed or replaced                                       *)

\* the step whose result get_market_data goes on with, when the store answers
StepInUse(st, o, today) ==
  LET title == _normalize_job_title(o.job_title)
  IN  IF ~Insufficient(Step1Query(st, title, _get_location_tier(o.location),
                                  o.years_experience, today))
      THEN 1
      ELSE IF Sufficient(Step2Query(st, title, today)) THEN 2 ELSE 3

\* the result dict of that step
UsedResult(st, o, today) ==
  LET title == _normalize_job_title(o.job_title)
      step == StepInUse(st, o, today)
  IN  CASE step = 1 -> Step1Query(st, title, _get_location_tier(o.location),
                                  o.years_experience, today)
        [] step = 2 -> Step2Query(st, title, today)
        [] OTHER -> Step3Query(st, today)

\* rows to add or to put in place of another: unverified, on the 540-day
\* cutoff, between the two cutoffs, on the 730-day cutoff
ScopeRows ==
  { Sample("senior_software_engineer", "tier1", 6, 900000, 90000, 0, FALSE, -10),
    Sample("senior_software_engineer", "tier1", 6, 900000, 90000, 0, TRUE, -540),
    Sample("senior_software_engineer", "tier1", 6, 900000, 90000, 0, TRUE, -600),
    Sample("senior_software_engineer", "tier1", 6, 900000, 90000, 0, TRUE, -730),
    Sample("software_engineer", "tier3", 3, 30000, 0, 0, FALSE, -700) }

ScopeDays == {0, 1}

\* the store after the change: a row appended, row k deleted, row k replaced
Changed(st, kind, k, row) ==
  CASE kind = "add" -> Append(st, row)
    [] kind = "remove" -> SubSeq(st, 1, k - 1) \o SubSeq(st, k + 1, Len(st))
    [] OTHER -> [st EXCEPT ![k] = row]

\* the row is unverified or not newer than the cutoff of the step in use
OutOfScope(row, st, o, today) ==
  \/ ~row.is_verified
  \/ row.submitted_date <= today - (IF StepInUse(st, o, today) = 1 THEN 540 ELSE 730)

ScopeArgs ==
  { a \in [st : Stores, o : Offers, today : ScopeDays,
           kind : {"add", "remove", "replace"}, k : 0..9, row : ScopeRows] :
      /\ a.kind = "add" => (a.k = 0 /\ OutOfScope(a.row, a.st, a.o, a.today))
      /\ a.kind = "remove" =>
           /\ a.k \in 1..Len(a.st)
           /\ a.row = Sample("software_engineer", "tier3", 3, 30000, 0, 0, FALSE, -700)
           /\ OutOfScope(a.st[a.k], a.st, a.o, a.today)
      /\ a.kind = "replace" =>
           /\ a.k \in 1..Len(a.st)
           /\ OutOfScope(a.st[a.k], a.st, a.o, a.today)
           /\ OutOfScope(a.row, a.st, a.o, a.today) }

ScopeInit ==
  /\ store = StoreEmpty
  /\ PipeInit
  /\ fn = "none"
  /\ arg \in {Some(a) : a \in ScopeArgs}
  /\ ret = None
  /\ UmkIdle

\* get_market_data on the store as it was and as it is after the change
ApplyBothStores ==
  LET a == Val(arg)
      day == [k \in 1..3 |-> a.today]
      up == [k \in 1..3 |-> TRUE]
      after == Changed(a.st, a.kind, a.k, a.row)
  IN  Applied("get_market_data",
              [before |-> get_market_data(a.st, a.o, day, up),
               after |-> get_market_data(after, a.o, day, up),
               used_before |-> UsedResult(a.st, a.o, a.today),
               used_after |-> UsedResult(after, a.o, a.today)])

ScopeNext == ApplyBothStores

ScopeSpec == ScopeInit /\ [][ScopeNext]_vars

\* C15: adding, removing or replacing rows that are unverified or not newer
\* than the cutoff of the step in use (540 days for the specific query, 730
\* for the two fallback queries) changes neither the result of that step nor
\* the snapshot returned
TheoremC15 ==
  fn = "get_market_data" =>
    /\ Val(ret).after = Val(ret).before
    /\ Val(ret).used_after = Val(ret).used_before

\* an unverified row matching title, tier and experience is added to a store
\* with five matching samples: the snapshot is still built from those five
WitnessC15 ==
  /\ fn = "get_market_data"
  /\ Val(arg).kind = "add"
  /\ ~Val(arg).row.is_verified
  /\ Val(arg).row.normalized_title = "senior_software_engineer"
  /\ Val(ret).before.sample_size = 5
  /\ Val(ret).after.sample_size = 5

---------------------------------------------------------------------------
(* umk_data table: database.py UMKData and add_umk_data, the admin           *)
(* operations of services/umk_service.py, and the compliance check of        *)
(* analyze_offer made while the table changes                                *)

MaxAdminOps == 3

\* a row of umk_data: the columns the operations read or write
UmkRow(id, d) ==
  [id |-> id, kabupaten_kota |-> d.kabupaten_kota, provinsi |-> d.provinsi,
   umk |-> d.umk, tahun |-> d.tahun, is_active |-> d.is_active]

\* database.py add_umk_data: nothing when the table has rows, else one row
\* per entry of UMK_DATA_2024, for 2024, active
add_umk_data(t) ==
  IF Len(t) > 0 THEN [table |-> t, outcome |-> "exists"]
  ELSE [table |-> [k \in 1..Len(UMK_DATA_2024) |->
                     UmkRow(k, [kabupaten_kota |-> UMK_DATA_2024[k].kabupaten_kota,
                                provinsi |-> UMK_DATA_2024[k].provinsi,
                                umk |-> UMK_DATA_2024[k].umk,
                                tahun |-> 2024, is_active |-> TRUE])],
        outcome |-> "seeded"]

\* .filter(kabupaten_kota ==, provinsi ==, tahun ==, id !=).first(): the index
\* of the first such row, 0 when there is none (no row has id 0)
ExistingUmk(t, kabupaten_kota, provinsi, tahun, umk_id) ==
  LET hits == {k \in 1..Len(t) : /\ t[k].kabupaten_kota = kabupaten_kota
                                 /\ t[k].provinsi = provinsi
                                 /\ t[k].tahun = tahun
                                 /\ t[k].id # umk_id}
  IN  IF hits = {} THEN 0 ELSE CHOOSE k \in hits : \A j \in hits : k <= j

\* .filter(UMKData.id == umk_id).first()
UmkById(t, umk_id) ==
  LET hits == {k \in 1..Len(t) : t[k].id = umk_id}
  IN  IF hits = {} THEN 0 ELSE CHOOSE k \in hits : TRUE

\* setattr(record, field, value) for every field of the update
WithFields(row, d) ==
  [f \in DOMAIN row |-> IF f \in DOMAIN d THEN d[f] ELSE row[f]]

\* UMKService.create_umk
create_umk(t, umk_data) ==
  IF ExistingUmk(t, umk_data.kabupaten_kota, umk_data.provinsi, umk_data.tahun, 0) # 0
  THEN [table |-> t, outcome |-> "ValueError"]
  ELSE [table |-> Append(t, UmkRow(Len(t) + 1, umk_data)), outcome |-> "created"]

\* UMKService.update_umk
update_umk(t, umk_id, umk_data) ==
  LET k == UmkById(t, umk_id)
      kabupaten_kota == Get(umk_data, "kabupaten_kota", t[k].kabupaten_kota)
      provinsi == Get(umk_data, "provinsi", t[k].provinsi)
      tahun == Get(umk_data, "tahun", t[k].tahun)
      keyed == DOMAIN umk_data \cap {"kabupaten_kota", "provinsi", "tahun"} # {}
  IN  IF k = 0 THEN [table |-> t, outcome |-> "not_found"]
      ELSE IF keyed /\ ExistingUmk(t, kabupaten_kota, provinsi, tahun, umk_id) # 0
      THEN [table |-> t, outcome |-> "ValueError"]
      ELSE [table |-> [t EXCEPT ![k] = WithFields(@, umk_data)], outcome |-> "updated"]

\* a variant that removes the row from the table
delete_umk_hard(t, umk_id) ==
  LET k == UmkById(t, umk_id)
  IN  IF k = 0 THEN [table |-> t, outcome |-> "not_found"]
      ELSE [table |-> SubSeq(t, 1, k - 1) \o SubSeq(t, k + 1, Len(t)),
            outcome |-> "deleted"]

\* UMKService.delete_umk: a soft delete
delete_umk(t, umk_id) ==
  LET k == UmkById(t, umk_id)
  IN  IF k = 0 THEN [table |-> t, outcome |-> "not_found"]
      ELSE [table |-> [t EXCEPT ![k].is_active = FALSE], outcome |-> "deleted"]

\* the row loop of bulk_import_from_csv.  The session does not autoflush
\* (database.py line 25), so the query for an existing record sees the rows
\* committed before the import (t0), not the records added by earlier rows
\* of the same file; cur holds the loaded records with their updates, new
\* the records added
RECURSIVE BulkRows(_, _, _, _)
BulkRows(t0, cur, new, rows) ==
  IF Len(rows) = 0 THEN cur \o new
  ELSE LET d == Head(rows)
           k == ExistingUmk(t0, d.kabupaten_kota, d.provinsi, d.tahun, 0)
       IN  IF k # 0
           THEN BulkRows(t0, [cur EXCEPT ![k] = WithFields(@, d)], new, Tail(rows))
           ELSE BulkRows(t0, cur,
                         Append(new, UmkRow(Len(t0) + Len(new) + 1, d)), Tail(rows))

\* UMKService.bulk_import_from_csv for a well-formed file
bulk_import_from_csv(t, rows) ==
  [table |-> BulkRows(t, t, << >>, rows), outcome |-> "imported"]

UmkInput(kabupaten_kota, provinsi, umk, tahun) ==
  [kabupaten_kota |-> kabupaten_kota, provinsi |-> provinsi, umk |-> umk,
   tahun |-> tahun, is_active |-> TRUE]

\* a new city, a new year, an existing record, an existing city under another
\* spelling of its province
CreateInputs ==
  { UmkInput("Kota Batam", "Kepulauan Riau", 4685050, 2024),
    UmkInput("Jakarta", "DKI Jakarta", 5396761, 2025),
    UmkInput("Jakarta", "DKI Jakarta", 5067823, 2024),
    UmkInput("Jakarta", "Jakarta Raya", 5100000, 2024) }

UpdateInputs ==
  { [umk |-> 6000000], [kabupaten_kota |-> "Jakarta Pusat"], [is_active |-> TRUE] }

\* the first two seeded rows (Jakarta, Jakarta Pusat) and an id no row has
UmkIds == {1, 2, 99}

CsvInputs ==
  { << UmkInput("Kota Batam", "Kepulauan Riau", 4685050, 2024),
       UmkInput("Kota Batam", "Kepulauan Riau", 4685050, 2024) >>,
    << UmkInput("Jakarta", "DKI Jakarta", 5200000, 2024) >> }

AssessLocations == {"Jakarta", "Kota Batam"}

AssessBases == {5500000}

UmkInit ==
  /\ store = StoreEmpty
  /\ PipeInit
  /\ FnIdle
  /\ UmkIdle

\* the log of the operations made, with what each returned or raised
AdminLogged(op, r) == Append(admin, [op |-> op, outcome |-> r.outcome])

\* init: add_umk_data.  An operation on the table commits; what was assessed
\* before it is of the table as it was
SeedUmk ==
  /\ Len(admin) < MaxAdminOps
  /\ umk_table' = add_umk_data(umk_table).table
  /\ admin' = AdminLogged("add_umk_data", add_umk_data(umk_table))
  /\ assessed' = None
  /\ UNCHANGED <<pipeVars, fnVars>>

\* POST /admin/umk
CreateUmk(d) ==
  /\ Len(admin) < MaxAdminOps
  /\ umk_table' = create_umk(umk_table, d).table
  /\ admin' = AdminLogged("create_umk", create_umk(umk_table, d))
  /\ assessed' = None
  /\ UNCHANGED <<pipeVars, fnVars>>

\* PUT /admin/umk/{umk_id}
UpdateUmk(id, d) ==
  /\ Len(admin) < MaxAdminOps
  /\ umk_table' = update_umk(umk_table, id, d).table
  /\ admin' = AdminLogged("update_umk", update_umk(umk_table, id, d))
  /\ assessed' = None
  /\ UNCHANGED <<pipeVars, fnVars>>

\* DELETE /admin/umk/{umk_id}
DeleteUmk(id) ==
  /\ Len(admin) < MaxAdminOps
  /\ umk_table' = delete_umk(umk_table, id).table
  /\ admin' = Append(admin, [op |-> "delete_umk", umk_id |-> id,
                              outcome |-> delete_umk(umk_table, id).outcome])
  /\ assessed' = None
  /\ UNCHANGED <<pipeVars, fnVars>>

\* POST /admin/umk/import-csv
ImportCsv(rows) ==
  /\ Len(admin) < MaxAdminOps
  /\ umk_table' = bulk_import_from_csv(umk_table, rows).table
  /\ admin' = AdminLogged("bulk_import_from_csv", bulk_import_from_csv(umk_table, rows))
  /\ assessed' = None
  /\ UNCHANGED <<pipeVars, fnVars>>

\* analyze_offer lines 38-43: the UMK lookup and the compliance check
AssessCompliance(location, base_salary) ==
  /\ assessed' = Some([location |-> location, base_salary |-> base_salary,
                       umk_compliance |->
                         calculate_umk_compliance(base_salary,
                                                  get_umk_for_location(location))])
  /\ UNCHANGED <<umk_table, admin, pipeVars, fnVars>>

UmkNext ==
  \/ SeedUmk
  \/ \E d \in CreateInputs : CreateUmk(d)
  \/ \E id \in UmkIds, d \in UpdateInputs : UpdateUmk(id, d)
  \/ \E id \in UmkIds : DeleteUmk(id)
  \/ \E rows \in CsvInputs : ImportCsv(rows)
  \/ \E l \in AssessLocations, b \in AssessBases : AssessCompliance(l, b)

UmkSpec == UmkInit /\ [][UmkNext]_vars

\* the active rows of the table naming the location
ActiveFor(location) ==
  {k \in 1..Len(umk_table) : /\ umk_table[k].is_active
                             /\ umk_table[k].kabupaten_kota = location}

\* C16: an assessment made after the table changed compares the offer with
\* the table as it stands: when exactly one active row names the location,
\* the compliance result carries that row's amount and verdict
OriginalC16 ==
  assessed # None =>
    LET a == Val(assessed)
        rows == ActiveFor(a.location)
    IN  Cardinality(rows) = 1 =>
          LET r == umk_table[CHOOSE k \in rows : TRUE]
          IN  /\ a.umk_compliance.umk_amount = Some(r.umk)
              /\ a.umk_compliance.complies = (a.base_salary >= r.umk)

\* C25: delete_umk on an existing id only sets that record's is_active to
\* false and returns true: the record stays in the table under its id, the
\* number of records and every other record are unchanged; on an unknown id
\* it returns false and changes nothing
TheoremC25 ==
  [][LET e == admin'[Len(admin')]
         known == {k \in 1..Len(umk_table) : umk_table[k].id = e.umk_id}
     IN  (Len(admin') = Len(admin) + 1 /\ e.op = "delete_umk") =>
           /\ Len(umk_table') = Len(umk_table)
           /\ known # {} =>
                /\ e.outcome = "deleted"
                /\ \A k \in 1..Len(umk_table) :
                     umk_table'[k] = IF k \in known
                                     THEN [umk_table[k] EXCEPT !.is_active = FALSE]
                                     ELSE umk_table[k]
           /\ known = {} =>
                /\ e.outcome = "not_found"
                /\ umk_table' = umk_table]_vars

\* a seeded record deleted: inactive, still in the table of 36 records
WitnessC25 ==
  /\ Len(admin) > 0
  /\ admin[Len(admin)].op = "delete_umk"
  /\ admin[Len(admin)].outcome = "deleted"
  /\ Len(umk_table) = 36
  /\ \E k \in 1..Len(umk_table) :
       /\ umk_table[k].id = admin[Len(admin)].umk_id
       /\ ~umk_table[k].is_active

\* C17: the table never holds two active rows for one location and year
OriginalC17 ==
  \A j, k \in 1..Len(umk_table) :
    (/\ umk_table[j].is_active /\ umk_table[k].is_active
     /\ umk_table[j].kabupaten_kota = umk_table[k].kabupaten_kota
     /\ umk_table[j].tahun = umk_table[k].tahun) => j = k

---------------------------------------------------------------------------
(* UMK lookup by location text and the compliance check on what it finds     *)
(* (analyze_offer lines 38-43, test_umk.py)                                  *)

LocLocations ==
  { "Jakarta", "DKI Jakarta", "Jakarta Pusat", "Kota Bandung", "Bandung",
    "Kabupaten Bandung", "Surabaya", "Medan", "Palembang", "Makassar",
    "Unknown City", "Remote", "", "   ", "Bali", "Ubud, Bali", "Jawa Barat",
    "Jawa Tengah", "Provinsi Jawa Timur", "Daerah Istimewa Yogyakarta",
    "DI Yogyakarta", "Cirebon, Jawa Barat", "Jakarta Selatan, DKI Jakarta",
    "Solo", "Kota Batam", "San Francisco, CA", "BANDUNG ", "Yogyakarta",
    "Jawa Timur" }

LocBases == {3000000, 4000000, 5067823, 6000000}

LocArgs == { [location |-> l, base_salary |-> b] : l \in LocLocations, b \in LocBases }

LocInit ==
  /\ store = StoreEmpty
  /\ PipeInit
  /\ fn = "none"
  /\ arg \in {Some(a) : a \in LocArgs}
  /\ ret = None
  /\ UmkIdle

ApplyLookup ==
  Applied("get_umk_for_location", get_umk_for_location(Val(arg).location))

ApplyLookupCompliance ==
  Applied("calculate_umk_compliance",
          calculate_umk_compliance(Val(arg).base_salary,
                                   get_umk_for_location(Val(arg).location)))

LocNext ==
  \/ ApplyLookup
  \/ ApplyLookupCompliance

LocSpec == LocInit /\ [][LocNext]_vars

\* the lowercased, trimmed text with the administrative words taken out
CleanedText(location) ==
  Replace(Replace(Replace(Replace(Strip(Lower(location)),
                                  "kota ", ""), "kabupaten ", ""),
                  " daerah istimewa yogyakarta", "yogyakarta"), "dki ", "")

\* C18: the lookup resolves a location text by priority: the record whose key
\* is the cleaned text; else a record whose key contains the cleaned text or
\* is contained in it; else the province minimum of a province named in the
\* text; else null.  It never raises, and empty text gives null.
TheoremC18 ==
  (fn = "get_umk_for_location" /\ ret # None) =>
    LET location == Val(arg).location
        r == Val(ret)
        text == CleanedText(location)
        keys == 1..Len(UMK_DATA_2024)
        exact == {k \in keys : UMK_DATA_2024[k].key = text}
        partial == {k \in keys : \/ Contains(UMK_DATA_2024[k].key, text)
                                 \/ Contains(text, UMK_DATA_2024[k].key)}
        named == {k \in 1..Len(province_umk) :
                    Contains(province_umk[k].province, Strip(Lower(location)))}
    IN  /\ r = None \/ (Len(r) = 1 /\ Val(r).umk > 0)
        /\ location = "" => r = None
        /\ location # "" =>
             IF exact # {}
               THEN \E k \in exact : r = Some(UmkRecord(UMK_DATA_2024[k]))
             ELSE IF partial # {}
               THEN \E k \in partial : r = Some(UmkRecord(UMK_DATA_2024[k]))
             ELSE IF named # {}
               THEN /\ r # None
                    /\ Val(r).region = "province"
                    /\ \E k \in named : Val(r).umk = province_umk[k].umk
             ELSE r = None

\* a text naming only a province resolved to the province minimum
WitnessC18 ==
  /\ fn = "get_umk_for_location"
  /\ ret # None
  /\ Val(arg).location = "Jawa Barat"
  /\ Val(ret) # None
  /\ Val(Val(ret)).region = "province"
  /\ Val(Val(ret)).umk = 1842589

\* the compliance check on a found minimum: the reported percentage, in
\* tenths, is the tenth nearest to (base - minimum) / minimum * 100 (the
\* factor 12 of the annual amounts cancels), stated where the products fit
\* the integer range; the two examples against 5,067,823 with the
\* percentage given in tenths
ComplianceExamples(tenths) ==
  (fn = "calculate_umk_compliance" /\ ret # None
     /\ get_umk_for_location(Val(arg).location) # None) =>
    LET base == Val(arg).base_salary
        minimum == Val(get_umk_for_location(Val(arg).location)).umk
        r == Val(ret)
    IN  /\ r.complies = (base * 12 >= minimum * 12)
        /\ Abs(base - minimum) <= 2000000 =>
             2 * Abs(1000 * (base - minimum) - Val(r.percentage_above_umk) * minimum)
               <= minimum
        /\ (minimum = 5067823 /\ base = 6000000) =>
             /\ r.complies
             /\ r.percentage_above_umk = Some(tenths)
             /\ r.risk_level = "low"
        /\ (minimum = 5067823 /\ base = 3000000) =>
             /\ ~r.complies
             /\ r.risk_level = "high"

\* C19 as stated: 6,000,000 against 5,067,823 is 18.2 percent above
OriginalC19 == ComplianceExamples(182)

\* C19: percentage_above is (annual base - annual minimum) / annual minimum
\* * 100 rounded to one decimal; 6,000,000 against 5,067,823 complies at
\* 18.4 percent with risk level low, 3,000,000 does not comply, risk high
TheoremC19 == ComplianceExamples(184)

WitnessC19 ==
  /\ fn = "calculate_umk_compliance"
  /\ ret # None
  /\ Val(arg).location = "Jakarta"
  /\ Val(arg).base_salary = 6000000
  /\ Val(ret).complies
  /\ Val(ret).percentage_above_umk = Some(184)
  /\ Val(ret).risk_level = "low"

---------------------------------------------------------------------------
(* _extract_leverage_points over offers and market medians                   *)

LevBases == {70000, 80000, 80001, 100000}

\* bonus and equity_value: the key missing, zero, or an amount
LevAmounts == {Absent, Some(0), Some(10000)}

LevCompanies == {"", "Acme"}

LevYears == {4, 5, 9, 10}

LevTechStacks ==
  { << >>, <<"Python">>, <<"Rusty">>, <<"Rust">>, <<"AWS", "aws", "Aws">>,
    <<"rust", "Kubernetes", "react">>, <<"Go", "AWS", "GCP", "ml">> }

\* market_data without the key, or with a median
LevMedians == {Absent, Some(0), Some(80000), Some(95000)}

LevOffer(base, bonus, equity, company, yrs, tech, competing) ==
  LET always == [base_salary |-> base, company |-> company, years_experience |-> yrs,
                 tech_stack |-> tech, has_competing_offers |-> competing]
      given == [bonus |-> bonus, equity_value |-> equity]
      keys == DOMAIN always \cup {k \in DOMAIN given : given[k] # Absent}
  IN  [k \in keys |-> IF k \in DOMAIN always THEN always[k] ELSE Val(given[k])]

LevArgs ==
  { [offer_data |-> LevOffer(b, x, e, c, y, t, h),
     market_data |-> IF m = Absent THEN [sample_size |-> 0]
                     ELSE [sample_size |-> 0, p50 |-> m]] :
      b \in LevBases, x \in LevAmounts, e \in LevAmounts, c \in LevCompanies,
      y \in LevYears, t \in LevTechStacks, h \in BOOLEAN, m \in LevMedians }

LevInit ==
  /\ store = StoreEmpty
  /\ PipeInit
  /\ fn = "none"
  /\ arg \in {Some(a) : a \in LevArgs}
  /\ ret = None
  /\ UmkIdle

ApplyLeveragePoints ==
  Applied("_extract_leverage_points",
          _extract_leverage_points(Val(arg).offer_data, Val(arg).market_data))

LevNext == ApplyLeveragePoints

LevSpec == LevInit /\ [][LevNext]_vars

\* the place of a point type in the fixed order
LeverageRank(type) ==
  CASE type = "market_rate" -> 1
    [] type = "tech_premium" -> 2
    [] type = "experience" -> 3
    [] type = "missing_equity" -> 4
    [] type = "missing_bonus" -> 5
    [] type = "competition" -> 6
    [] OTHER -> 0

\* C20: the leverage points come in the order market_rate, tech_premium,
\* experience, missing_equity, missing_bonus, competition, each type at most
\* once and exactly when its condition holds, with the stated strength
TheoremC20 ==
  (fn = "_extract_leverage_points" /\ ret # None) =>
    LET o == Val(arg).offer_data
        m == Val(arg).market_data
        pts == Val(ret).points
        Has(t, s) == \E k \in 1..Len(pts) : pts[k].type = t /\ pts[k].strength = s
        Emits(t) == \E k \in 1..Len(pts) : pts[k].type = t
        median == IF "p50" \in DOMAIN m THEN Val(m.p50) ELSE 0
        tags == {Lower(o.tech_stack[k]) : k \in 1..Len(o.tech_stack)}
        matches == Cardinality({k \in 1..Len(hot_tech) : hot_tech[k] \in tags})
        no_equity == "equity_value" \notin DOMAIN o \/ o.equity_value = 0
        no_bonus == "bonus" \notin DOMAIN o \/ o.bonus = 0
    IN  /\ \A k \in 1..Len(pts) : LeverageRank(pts[k].type) # 0
        /\ \A j, k \in 1..Len(pts) :
             j < k => LeverageRank(pts[j].type) < LeverageRank(pts[k].type)
        /\ Emits("market_rate") <=> median > o.base_salary
        /\ Emits("market_rate") => Has("market_rate", "strong")
        /\ Emits("tech_premium") <=> matches >= 1
        /\ Has("tech_premium", "medium") <=> matches \in {1, 2}
        /\ Has("tech_premium", "strong") <=> matches >= 3
        /\ Has("experience", "medium") <=> o.years_experience \in 5..9
        /\ Has("experience", "strong") <=> o.years_experience >= 10
        /\ Emits("experience") <=> o.years_experience >= 5
        /\ Emits("missing_equity") <=> (no_equity /\ o.company # "")
        /\ Emits("missing_equity") => Has("missing_equity", "medium")
        /\ Emits("missing_bonus") <=> (no_bonus /\ o.base_salary > 80000)
        /\ Emits("missing_bonus") => Has("missing_bonus", "weak")
        /\ Emits("competition") <=> o.has_competing_offers
        /\ Emits("competition") => Has("competition", "strong")

\* an offer for which all six points are emitted
WitnessC20 ==
  /\ fn = "_extract_leverage_points"
  /\ ret # None
  /\ Len(Val(ret).points) = 6
  /\ Val(ret).points[2].type = "tech_premium"
  /\ Val(ret).points[2].strength = "strong"
  /\ Val(ret).points[3].type = "experience"
  /\ "bonus" \notin DOMAIN Val(arg).offer_data
  /\ "p50" \in DOMAIN Val(arg).market_data

---------------------------------------------------------------------------
(* _calculate_tech_stack_premium over tag lists                              *)

PremTags ==
  { "rust", "Rust", "ai", "go", "golang", "deep learning", "react native",
    "reactjs", "js", "python", "cobol", "" }

MaxTags == 2

\* the tag lists of at most MaxTags tags
PremStacks ==
  UNION { [1..n -> PremTags] : n \in 0..MaxTags }

PremInit ==
  /\ store = StoreEmpty
  /\ PipeInit
  /\ fn = "none"
  /\ arg \in {Some([tech_stack |-> t]) : t \in PremStacks}
  /\ ret = None
  /\ UmkIdle

ApplyTechPremium ==
  Applied("_calculate_tech_stack_premium",
          _calculate_tech_stack_premium(Val(arg).tech_stack))

PremNext == ApplyTechPremium

PremSpec == PremInit /\ [][PremNext]_vars

\* the table entries a lowercased tag matches: the entry of that name, or
\* failing that the entries whose name contains the tag or is contained in it
MatchedEntries(tag) ==
  LET n == Len(premium_tech)
      exact == {k \in 1..n : premium_tech[k].name = tag}
  IN  IF exact # {} THEN exact
      ELSE {k \in 1..n : \/ Contains(premium_tech[k].name, tag)
                         \/ Contains(tag, premium_tech[k].name)}

\* C21: the premium is 1.0 for no tags and when no tag matches the table;
\* otherwise the largest premium among the matched tags (a tag's premium
\* being that of its first matching entry), capped at 1.35; it lies in
\* 1.0..1.35; <<rust>> gives 1.20 and <<rust, ai>> gives 1.25
TheoremC21 ==
  (fn = "_calculate_tech_stack_premium" /\ ret # None) =>
    LET tech_stack == Val(arg).tech_stack
        r == Val(ret)
        tags == {Lower(tech_stack[k]) : k \in 1..Len(tech_stack)}
        matched == {t \in tags : MatchedEntries(t) # {}}
        First(t) == CHOOSE k \in MatchedEntries(t) : \A j \in MatchedEntries(t) : k <= j
        PremiumOf(t) == premium_tech[First(t)].premium
    IN  /\ 100 <= r /\ r <= 135
        /\ matched = {} => r = 100
        /\ matched # {} =>
             /\ \E t \in matched : r = Min(PremiumOf(t), 135)
             /\ \A t \in matched : r >= Min(PremiumOf(t), 135)
        /\ tech_stack = <<"rust">> => r = 120
        /\ tech_stack = <<"rust", "ai">> => r = 125

\* two matching tags: the larger premium, not the two stacked
WitnessC21 ==
  /\ fn = "_calculate_tech_stack_premium"
  /\ ret = Some(125)
  /\ Val(arg).tech_stack = <<"rust", "ai">>

---------------------------------------------------------------------------
(* _get_location_tier and _get_col_multiplier over location texts            *)

CityLocations ==
  { "Remote - US", "San Francisco, CA", "Boise, ID", "", "Remote (Austin)",
    "WFH", "Work from home, Seattle", "New York, NY", "NYC",
    "Manhattan, New York", "Brooklyn, NY", "Palo Alto, CA", "Santa Monica",
    "Washington DC", "LA", "Los Angeles", "SF Bay Area", "Boston, MA",
    "San Diego", "Seattle, WA", "Austin, TX", "Denver, CO", "Chicago, IL",
    "Miami, FL", "Houston, TX", "Minneapolis, MN", "Phoenix, AZ",
    "Raleigh, NC", "Atlanta, GA", "Dallas, TX", "Portland, OR",
    "Philadelphia, PA", "Salt Lake City, UT", "Cleveland, OH", "Orlando, FL",
    "Jakarta", "Kota Bandung", "London", "Austin / Seattle", "Berlin" }

CityInit ==
  /\ store = StoreEmpty
  /\ PipeInit
  /\ fn = "none"
  /\ arg \in {Some([location |-> l]) : l \in CityLocations}
  /\ ret = None
  /\ UmkIdle

ApplyLocationTier ==
  Applied("_get_location_tier", _get_location_tier(Val(arg).location))

ApplyColMultiplier ==
  Applied("_get_col_multiplier", _get_col_multiplier(Val(arg).location))

CityNext ==
  \/ ApplyLocationTier
  \/ ApplyColMultiplier

CitySpec == CityInit /\ [][CityNext]_vars

Letters ==
  { "a", "b", "c", "d", "e", "f", "g", "h", "i", "j", "k", "l", "m",
    "n", "o", "p", "q", "r", "s", "t", "u", "v", "w", "x", "y", "z" }

\* the lowercased text names the city: the city's name stands in it as whole
\* words, not as letters inside another word
NamesCity(city, text) ==
  \E i \in 1..(Len(text) - Len(city) + 1) :
    /\ SubSeq(text, i, i + Len(city) - 1) = city
    /\ i = 1 \/ SubSeq(text, i - 1, i - 1) \notin Letters
    /\ \/ i + Len(city) - 1 = Len(text)
       \/ SubSeq(text, i + Len(city), i + Len(city)) \notin Letters

\* the tier of a text by membership of the cities it names in the city lists
NamedTier(location) ==
  LET text == Lower(location)
  IN  IF \E k \in 1..3 : Contains(<<"remote", "work from home", "wfh">>[k], text)
        THEN "remote"
      ELSE IF \E k \in 1..Len(tier1_cities) : NamesCity(tier1_cities[k], text)
        THEN "tier1"
      ELSE IF \E k \in 1..Len(tier2_cities) : NamesCity(tier2_cities[k], text)
        THEN "tier2"
      ELSE "tier3"

\* C22: the tier of a location is remote when the text has a remote phrase,
\* else tier1 when it names a tier-1 city, else tier2 when it names a tier-2
\* city, else tier3 (also for empty text); "Remote - US" is remote,
\* "San Francisco, CA" tier1, "Boise, ID" tier3
OriginalC22 ==
  (fn = "_get_location_tier" /\ ret # None) =>
    /\ Val(ret) = NamedTier(Val(arg).location)
    /\ Val(arg).location = "" => Val(ret) = "tier3"
    /\ Val(arg).location = "Remote - US" => Val(ret) = "remote"
    /\ Val(arg).location = "San Francisco, CA" => Val(ret) = "tier1"
    /\ Val(arg).location = "Boise, ID" => Val(ret) = "tier3"

\* C23: the multiplier is the one the city table gives to a city the text
\* names when there is one, else the default of the location's tier (1.4,
\* 1.1, 1.0, 1.0)
OriginalC23 ==
  (fn = "_get_col_multiplier" /\ ret # None) =>
    LET text == Lower(Val(arg).location)
        named == {k \in 1..Len(col_multipliers) : NamesCity(col_multipliers[k].city, text)}
        tier == NamedTier(Val(arg).location)
    IN  IF named # {}
        THEN \E k \in named : Val(ret) = col_multipliers[k].multiplier
        ELSE Val(ret) = (CASE tier = "tier1" -> 140 [] tier = "tier2" -> 110
                           [] OTHER -> 100)

---------------------------------------------------------------------------
(* services/salary_contribution.py: the title code computed at intake, and   *)
(* the two title normalizers over raw titles                                 *)

\* s.strip('_')
RECURSIVE StripUnderscores(_)
StripUnderscores(s) ==
  IF Len(s) > 0 /\ SubSeq(s, 1, 1) = "_" THEN StripUnderscores(SubSeq(s, 2, Len(s)))
  ELSE IF Len(s) > 0 /\ SubSeq(s, Len(s), Len(s)) = "_"
       THEN StripUnderscores(SubSeq(s, 1, Len(s) - 1))
  ELSE s

\* SalaryContributionService._normalize_title
_normalize_title(title) ==
  IF Len(title) = 0 THEN "unknown"
  ELSE
    LET title_lower == Strip(Lower(title))
        Has(term) == Contains(term, title_lower)
        RECURSIVE Collapse(_)
        Collapse(x) == IF Contains("__", x) THEN Collapse(Replace(x, "__", "_")) ELSE x
        normalized ==
          StripUnderscores(Collapse(
            Replace(Replace(Replace(Replace(Replace(title_lower,
              " ", "_"), "-", "_"), "/", "_"), ",", "_"), ".", "_")))
    IN  IF AnyIn(<<"software engineer", "swe", "software developer", "developer">>, title_lower)
        THEN IF AnyIn(<<"senior", "sr", "lead">>, title_lower) THEN "senior_software_engineer"
             ELSE IF Has("staff") THEN "staff_software_engineer"
             ELSE IF Has("principal") THEN "principal_software_engineer"
             ELSE IF AnyIn(<<"junior", "jr", "associate">>, title_lower)
                  THEN "junior_software_engineer"
             ELSE "software_engineer"
        ELSE IF AnyIn(<<"product manager", "pm">>, title_lower)
        THEN IF Has("senior") \/ Has("sr") THEN "senior_product_manager"
             ELSE IF AnyIn(<<"principal", "lead">>, title_lower) THEN "principal_product_manager"
             ELSE "product_manager"
        ELSE IF AnyIn(<<"data scientist", "data science">>, title_lower)
        THEN IF Has("senior") \/ Has("sr") THEN "senior_data_scientist"
             ELSE "data_scientist"
        ELSE IF AnyIn(<<"devops", "dev ops", "platform engineer", "sre">>, title_lower)
        THEN "devops_engineer"
        ELSE IF AnyIn(<<"ux designer", "ui designer", "product designer", "ui/ux">>, title_lower)
        THEN "ux_designer"
        ELSE IF Has("backend") \/ Has("back end") THEN "backend_engineer"
        ELSE IF Has("frontend") \/ Has("front end") THEN "frontend_engineer"
        ELSE IF AnyIn(<<"full stack", "fullstack">>, title_lower) THEN "fullstack_engineer"
        ELSE SubSeq(normalized, 1, Min(50, Len(normalized)))

TitleInputs ==
  { "", "Software Engineer", "Senior Software Engineer", "Sr. SWE",
    "Staff Software Engineer", "Principal Software Developer", "Junior Developer",
    "Lead Developer", "Senior Staff Software Engineer", "Product Manager",
    "Senior Product Manager", "Principal PM", "Lead Product Manager",
    "Data Scientist", "Sr Data Scientist", "Data Science Manager",
    "DevOps Engineer", "Platform Engineer", "Dev Ops Lead", "UX Designer",
    "Product Designer", "UI Designer", "Backend Engineer",
    "Senior Backend Engineer", "Backend Engineer (Payments)", "Back End Engineer",
    "Frontend Engineer", "Front End Engineer", "Full Stack Engineer",
    "Fullstack Engineer", "Backend Developer", "SRE", "UI/UX Lead",
    "QA Engineer", "QA-Engineer / Tester", "Engineering Manager",
    " Data Analyst ", "Data Analyst, Growth", "Product Manager / Developer",
    "Machine Learning Engineer",
    "Associate Vice President of Global Infrastructure Engineering Operations" }

TitleInit ==
  /\ store = StoreEmpty
  /\ PipeInit
  /\ fn = "none"
  /\ arg \in {Some([job_title |-> t]) : t \in TitleInputs}
  /\ ret = None
  /\ UmkIdle

ApplyNormalizeJobTitle ==
  Applied("_normalize_job_title", _normalize_job_title(Val(arg).job_title))

\* the code stored with a sample contributed under the title, and the code
\* the resolver filters on for an offer with the same title
ApplyIntakeAndResolver ==
  Applied("_normalize_title",
          [stored |-> _normalize_title(Val(arg).job_title),
           queried |-> _normalize_job_title(Val(arg).job_title)])

TitleNext ==
  \/ ApplyNormalizeJobTitle
  \/ ApplyIntakeAndResolver

TitleSpec == TitleInit /\ [][TitleNext]_vars

\* the role families in their priority order: terms and base code
RoleFamilies ==
  << [terms |-> <<"software engineer", "swe", "software developer", "developer">>,
      code |-> "software_engineer"],
     [terms |-> <<"product manager", "pm">>, code |-> "product_manager"],
     [terms |-> <<"data scientist", "data science">>, code |-> "data_scientist"],
     [terms |-> <<"devops", "dev ops", "platform engineer">>, code |-> "devops_engineer"],
     [terms |-> <<"ux designer", "ui designer", "product designer">>, code |-> "ux_designer"],
     [terms |-> <<"backend">>, code |-> "backend_engineer"],
     [terms |-> <<"frontend">>, code |-> "frontend_engineer"],
     [terms |-> <<"fullstack">>, code |-> "fullstack_engineer"] >>

\* the codes of a family: its base code, alone or under a seniority qualifier
FamilyCodes(code) ==
  {code} \cup {q \o "_" \o code : q \in {"senior", "staff", "principal", "junior"}}

\* lowercase, separators to underscores, runs of underscores to one, 50 chars
GenericTitle(title) ==
  LET RECURSIVE Collapse(_)
      Collapse(x) == IF Contains("__", x) THEN Collapse(Replace(x, "__", "_")) ELSE x
      n == Collapse(Replace(Replace(Replace(Lower(title), " ", "_"), "-", "_"), "/", "_"))
  IN  SubSeq(n, 1, Min(50, Len(n)))

\* C24: the title code is unknown for the empty title; else a code of the
\* first role family, in the order software engineer, product manager, data
\* scientist, devops, designer, backend, frontend, fullstack, of which the
\* title contains a term; else the generic normalization
OriginalC24 ==
  (fn = "_normalize_job_title" /\ ret # None) =>
    LET title == Val(arg).job_title
        lower == Lower(title)
        hits == {k \in 1..Len(RoleFamilies) : AnyIn(RoleFamilies[k].terms, lower)}
        first == CHOOSE k \in hits : \A j \in hits : k <= j
    IN  IF title = "" THEN Val(ret) = "unknown"
        ELSE IF hits # {} THEN Val(ret) \in FamilyCodes(RoleFamilies[first].code)
        ELSE Val(ret) = GenericTitle(title)

\* C28: the title code stored at intake is the title code the resolver
\* computes for the same raw title
OriginalC28 ==
  (fn = "_normalize_title" /\ ret # None) => Val(ret).stored = Val(ret).queried

---------------------------------------------------------------------------
(* The negotiation targets against a snapshot with ordered percentiles       *)
(* (FnSpec)                                                                  *)

\* the four percentiles are given, positive and non-decreasing
FnOrderedPercentiles ==
  /\ \A k \in {"p25", "p50", "p75", "p90"} :
       k \in DOMAIN FnMarket /\ Truthy(FnMarket[k])
  /\ Val(FnMarket.p25) <= Val(FnMarket.p50)
  /\ Val(FnMarket.p50) <= Val(FnMarket.p75)
  /\ Val(FnMarket.p75) <= Val(FnMarket.p90)

\* C26: for total_comp > 0 and non-decreasing percentiles the targets are
\* ordered total_comp <= conservative <= realistic <= aggressive and no
\* reported percentage increase is negative
OriginalC26 ==
  (fn = "_calculate_negotiation_room" /\ FnTotal > 0 /\ FnOrderedPercentiles) =>
    LET r == Val(ret)
    IN  /\ FnTotal <= r.conservative
        /\ r.conservative <= r.realistic
        /\ r.realistic <= r.aggressive
        /\ r.percentage_increase.conservative >= 0
        /\ r.percentage_increase.realistic >= 0
        /\ r.percentage_increase.aggressive >= 0

---------------------------------------------------------------------------
(* The lookup on a text that is the name of a province (LocSpec)             *)

\* "yogyakarta" and "di yogyakarta" name one province
ProvinceNamed(name) == IF name = "yogyakarta" THEN "di yogyakarta" ELSE name

\* C27: for a text that is exactly a province name of the province table the
\* lookup returns a record of that province, its province minimum or one of
\* its cities, never a record of another province
OriginalC27 ==
  (/\ fn = "get_umk_for_location"
   /\ ret # None
   /\ \E k \in 1..Len(province_umk) :
        Lower(Val(arg).location) = province_umk[k].province) =>
    /\ Val(ret) # None
    /\ ProvinceNamed(Lower(Val(Val(ret)).provinsi))
         = ProvinceNamed(Lower(Val(arg).location))

---------------------------------------------------------------------------
(* The multiplier of a text against the tier of the same text (CitySpec)     *)

\* C29: a text classified remote has multiplier 1.0, also when it names a
\* city of the multiplier table, and a text classified tier3 has no
\* multiplier above the 1.0 of its tier
OriginalC29 ==
  (fn = "_get_col_multiplier" /\ ret # None) =>
    LET tier == _get_location_tier(Val(arg).location)
    IN  /\ tier = "remote" => Val(ret) = 100
        /\ tier = "tier3" => Val(ret) <= 100

---------------------------------------------------------------------------
(* services/salary_contribution.py: submit_salary_data writing salary_data   *)

MaxSubmitDay == 2

\* _validate_submission for a submission whose numbers are integers
_validate_submission(data) ==
  /\ Len(Strip(data.job_title)) > 0
  /\ Len(Strip(data.location)) > 0
  /\ data.base_salary >= 20000
  /\ data.base_salary <= 1000000
  /\ data.years_experience >= 0
  /\ data.years_experience <= 50
  /\ Len(Strip(data.job_title)) >= 3
  /\ Len(Strip(data.job_title)) <= 200
  /\ Len(Strip(data.location)) >= 2
  /\ Len(Strip(data.location)) <= 100
  /\ \A field \in {"bonus", "equity_value"} : data[field] >= 0 /\ data[field] <= 1000000

\* _generate_submission_hash: the digest of the normalized fields, modelled
\* by the fields digested (equal digests exactly for equal fields)
_generate_submission_hash(data) ==
  [job_title |-> Strip(Lower(data.job_title)),
   base_salary |-> data.base_salary,
   location |-> Strip(Lower(data.location)),
   years_experience |-> data.years_experience,
   company |-> Strip(Lower(data.company))]

\* _is_reasonable_salary
_is_reasonable_salary(salary, years_exp) ==
  IF years_exp >= 20 THEN 130000 <= salary /\ salary <= 500000
  ELSE IF years_exp >= 15 THEN 120000 <= salary /\ salary <= 400000
  ELSE IF years_exp >= 10 THEN 100000 <= salary /\ salary <= 300000
  ELSE IF years_exp >= 5 THEN 70000 <= salary /\ salary <= 200000
  ELSE IF years_exp >= 2 THEN 50000 <= salary /\ salary <= 150000
  ELSE IF years_exp >= 0 THEN 40000 <= salary /\ salary <= 120000
  ELSE 40000 <= salary /\ salary <= 120000

\* _calculate_confidence_score, in thousandths (max_score is 1.0)
_calculate_confidence_score(data) ==
  (IF Len(Strip(data.company)) > 2 THEN 200 ELSE 0)
  + (IF _is_reasonable_salary(data.base_salary, data.years_experience) THEN 300 ELSE 0)
  + (IF Len(data.tech_stack) >= 3 THEN 200 ELSE IF Len(data.tech_stack) > 0 THEN 100 ELSE 0)
  + (IF data.bonus > 0 THEN 75 ELSE 0)
  + (IF data.equity_value > 0 THEN 75 ELSE 0)
  + (IF data.benefits THEN 100 ELSE 0)
  + (IF 0 <= data.years_experience /\ data.years_experience <= 50 THEN 50 ELSE 0)

\* the salary_data row of lines 91-109
SalaryRecord(data, today) ==
  LET row == Sample(_normalize_title(data.job_title), _get_location_tier(data.location),
                    data.years_experience, data.base_salary, data.bonus,
                    data.equity_value, _calculate_confidence_score(data) >= 700, today)
      more == [job_title |-> data.job_title, location |-> data.location,
               company |-> data.company,
               confidence_score |-> _calculate_confidence_score(data),
               submission_hash |-> _generate_submission_hash(data)]
  IN  [k \in DOMAIN row \cup DOMAIN more |-> IF k \in DOMAIN row THEN row[k] ELSE more[k]]

\* submit_salary_data on the store st on day today: the store afterwards and
\* the reply.  The duplicate query looks back 24 hours; the commit fails on
\* the unique submission_hash column (database.py line 52) when any row has
\* the hash, and the handler of lines 125-130 turns that into a failure.
submit_salary_data(st, data, today) ==
  LET submission_hash == _generate_submission_hash(data)
      duplicate == \E k \in 1..Len(st) : /\ st[k].submission_hash = submission_hash
                                         /\ st[k].submitted_date > today - 1
      taken == \E k \in 1..Len(st) : st[k].submission_hash = submission_hash
  IN  IF ~_validate_submission(data)
        THEN [store |-> st, reply |-> [success |-> FALSE, error |-> "invalid"]]
      ELSE IF duplicate
        THEN [store |-> st, reply |-> [success |-> FALSE, error |-> "recently submitted"]]
      ELSE IF taken
        THEN [store |-> st, reply |-> [success |-> FALSE, error |-> "error occurred"]]
      ELSE [store |-> Append(st, SalaryRecord(data, today)),
            reply |-> [success |-> TRUE,
                       confidence_score |-> _calculate_confidence_score(data)]]

Submission(title, location, base, yrs, company, bonus, equity, tech, benefits) ==
  [job_title |-> title, location |-> location, base_salary |-> base,
   years_experience |-> yrs, company |-> company, bonus |-> bonus,
   equity_value |-> equity, tech_stack |-> tech, benefits |-> benefits]

\* a full submission, the same in another spelling, another salary, and
\* three that fail validation (salary, title length, experience)
Submissions ==
  { Submission("Software Engineer", "Austin, TX", 120000, 5, "Acme",
               10000, 0, <<"rust", "aws", "go">>, FALSE),
    Submission("software engineer ", "austin, tx", 120000, 5, "ACME",
               0, 0, << >>, TRUE),
    Submission("Software Engineer", "Austin, TX", 130000, 5, "",
               0, 0, << >>, FALSE),
    Submission("Software Engineer", "Austin, TX", 10000, 5, "Acme",
               0, 0, << >>, FALSE),
    Submission("QA", "Austin, TX", 120000, 5, "Acme", 0, 0, << >>, FALSE),
    Submission("Software Engineer", "Austin, TX", 120000, 60, "Acme",
               0, 0, << >>, FALSE) }

SubmitInit ==
  /\ store = StoreEmpty
  /\ PipeInit
  /\ FnIdle
  /\ UmkIdle

\* POST of a contribution: one call of submit_salary_data
Submit(data) ==
  /\ store' = submit_salary_data(store, data, now).store
  /\ fn' = "submit_salary_data"
  /\ arg' = Some(data)
  /\ ret' = Some(submit_salary_data(store, data, now).reply)
  /\ UNCHANGED <<now, pc, offer, queries, market, result, umkVars>>

\* a day passes
SubmitTick ==
  /\ now < MaxSubmitDay
  /\ now' = now + 1
  /\ UNCHANGED <<store, pc, offer, queries, market, result, fnVars, umkVars>>

SubmitNext ==
  \/ \E data \in Submissions : Submit(data)
  \/ SubmitTick

SubmitSpec == SubmitInit /\ [][SubmitNext]_vars

\* C30: a valid submission with no sample of the same hash stored within
\* the preceding 24 hours stores exactly one new sample and reports success,
\* also when the same data was stored longer ago; an invalid submission and
\* one with a same-hash sample within 24 hours report failure and leave the
\* store unchanged.  A same-hash sample exactly 24 hours old is left open.
OriginalC30 ==
  [][(now' = now /\ fn' = "submit_salary_data") =>
       LET data == Val(arg')
           same == {k \in 1..Len(store) :
                      store[k].submission_hash = _generate_submission_hash(data)}
           within == \E k \in same : store[k].submitted_date > now - 1
           before == \A k \in same : store[k].submitted_date < now - 1
       IN  /\ (_validate_submission(data) /\ before) =>
                /\ Val(ret').success
                /\ Len(store') = Len(store) + 1
                /\ SubSeq(store', 1, Len(store)) = store
                /\ store'[Len(store')].submission_hash = _generate_submission_hash(data)
           /\ (~_validate_submission(data) \/ within) =>
                /\ ~Val(ret').success
                /\ store' = store]_vars

====
